---- MODULE Spec2Model ----
(***************************************************************************)
(* A model of minigh's request engine: Client::request (src/src/lib.rs)    *)
(* with its mutation throttle, and Retrier (src/src/util.rs), the per      *)
(* request state machine that answers every transport outcome with         *)
(* Success, Retry(delay) or an error.                                      *)
(*                                                                         *)
(* Time.  Instants and Durations are integers counting ticks of            *)
(* 1/(10 * 4^9) second.  In that unit 0.1 s and every 1.25^k s, k <= 9,    *)
(* are whole numbers, so the backoff is computed without rounding (the     *)
(* code's Duration::from_secs_f64 rounds to the nanosecond; that rounding, *)
(* below 1 ns, is not modelled).  The code compares Instants only by       *)
(* difference, so the origin of the clock is moved to the current instant  *)
(* when a logical request returns, and an Instant more than                *)
(* MUTATION_DELAY in the past is kept as exactly MUTATION_DELAY in the     *)
(* past.  Time passes in the transport call, in sleep() and between two    *)
(* logical requests; the code between them takes no time.                  *)
(*                                                                         *)
(* Header values and bodies are sequences of one-character strings; u64    *)
(* values are canonical sequences of decimal digits, so that u64::MAX and  *)
(* the overflow of n + 1 are part of the model.                            *)
(***************************************************************************)
EXTENDS Integers, Sequences, FiniteSets, TLC

\* ------------------------------------------------------------------ time

TicksPerSec == 10 * 262144

Secs(n) == n * TicksPerSec

Min(a, b) == IF a <= b THEN a ELSE b

Max(a, b) == IF a >= b THEN a ELSE b

\* Option<T>
None == [some |-> FALSE]

Some(v) == [some |-> TRUE, val |-> v]

\* --------------------------------------------------- program constants

\* const RETRIES: i32 = 10
RETRIES == 10

\* const BACKOFF_FACTOR: f64 = 1.0
BACKOFF_FACTOR == 1

\* const BACKOFF_BASE: f64 = 1.25, as the fraction 5/4
BACKOFF_BASE_NUM == 5

BACKOFF_BASE_DEN == 4

\* const BACKOFF_MAX: f64 = 120.0 (seconds)
BACKOFF_MAX == 120

\* The f64 literal 0.1 of the first backoff, as the fraction 1/10
FIRST_BACKOFF_DEN == 10

\* const TOTAL_WAIT: Duration = Duration::from_secs(300)
TOTAL_WAIT_SECS == 300

TOTAL_WAIT == Secs(TOTAL_WAIT_SECS)

\* const MUTATION_DELAY: Duration = Duration::from_secs(1)
MUTATION_DELAY_SECS == 1

MUTATION_DELAY == Secs(MUTATION_DELAY_SECS)

\* StatusCode::FORBIDDEN
FORBIDDEN == 403

\* ------------------------------------------------------------- methods

Methods == {"GET", "POST", "PATCH", "PUT", "DELETE"}

\* The methods the throttle is about, as the documentation lists them
MutatingMethods == {"POST", "PATCH", "PUT", "DELETE"}

\* Method::is_mutating
is_mutating(m) == m \in {"POST", "PATCH", "PUT", "DELETE"}

\* ------------------------------------------------------------- strings

\* The literal "rate limit" of handle(), character by character
RATE_LIMIT == <<"r", "a", "t", "e", " ", "l", "i", "m", "i", "t">>

\* str::contains: pat occurs in s as a contiguous substring
Contains(s, pat) ==
    \E i \in 1..(Len(s) - Len(pat) + 1) : SubSeq(s, i, i + Len(pat) - 1) = pat

DigitVal == [c \in {"0", "1", "2", "3", "4", "5", "6", "7", "8", "9"} |->
               CASE c = "0" -> 0 [] c = "1" -> 1 [] c = "2" -> 2 [] c = "3" -> 3
                 [] c = "4" -> 4 [] c = "5" -> 5 [] c = "6" -> 6 [] c = "7" -> 7
                 [] c = "8" -> 8 [] c = "9" -> 9]

IsDigit(c) == c \in DOMAIN DigitVal

\* ----------------------------------------------------------------- u64
\* A u64 is its decimal digits, most significant first, without leading
\* zeros (zero is <<0>>).

U64_MAX == <<1, 8, 4, 4, 6, 7, 4, 4, 0, 7, 3, 7, 0, 9, 5, 5, 1, 6, 1, 5>>

I64_MAX == <<9, 2, 2, 3, 3, 7, 2, 0, 3, 6, 8, 5, 4, 7, 7, 5, 8, 0, 7>>

RECURSIVE StripZeros(_)
StripZeros(d) ==
    IF Len(d) > 1 /\ d[1] = 0 THEN StripZeros(Tail(d)) ELSE d

RECURSIVE LexLeq(_, _)
LexLeq(a, b) ==
    IF a = <<>> THEN TRUE
    ELSE IF a[1] # b[1] THEN a[1] < b[1]
    ELSE LexLeq(Tail(a), Tail(b))

\* a <= b for canonical digit sequences
U64Leq(a, b) ==
    \/ Len(a) < Len(b)
    \/ Len(a) = Len(b) /\ LexLeq(a, b)

RECURSIVE DigitsInc(_)
DigitsInc(d) ==
    IF d = <<>> THEN <<1>>
    ELSE IF d[Len(d)] < 9 THEN SubSeq(d, 1, Len(d) - 1) \o <<d[Len(d)] + 1>>
    ELSE DigitsInc(SubSeq(d, 1, Len(d) - 1)) \o <<0>>

RECURSIVE DigitsValue(_)
DigitsValue(d) ==
    IF d = <<>> THEN 0 ELSE 10 * DigitsValue(SubSeq(d, 1, Len(d) - 1)) + d[Len(d)]

\* SystemTime::now() when the monotonic clock reads 0, in seconds since the
\* Unix epoch.  The epoch is scaled down so that timestamps stay small.
SysEpochSecs == 100

\* SystemTime::now() when the monotonic clock reads t
SystemNow(t) == Secs(SysEpochSecs) + t

\* Every Duration a header's seconds is compared with is at most TOTAL_WAIT,
\* and every timestamp is compared with a SystemTime below SysEpochSecs +
\* MUTATION_DELAY + TOTAL_WAIT: a number of seconds above SecsHorizon is
\* kept as SecsHorizon, which is beyond both.
SecsHorizon == SysEpochSecs + 2 * TOTAL_WAIT_SECS

\* Duration::from_secs(n), in ticks
DurationFromSecs(d) ==
    IF Len(d) > 3 THEN Secs(SecsHorizon)
    ELSE Secs(Min(DigitsValue(d), SecsHorizon))

\* str::parse::<u64>(): an optional "+", then one or more decimal digits,
\* whose value must fit 64 bits
ParseU64(s) ==
    LET body == IF s # <<>> /\ s[1] = "+" THEN Tail(s) ELSE s
    IN  IF body = <<>> \/ \E i \in 1..Len(body) : ~IsDigit(body[i])
        THEN None
        ELSE LET d == StripZeros([i \in 1..Len(body) |-> DigitVal[body[i]]])
             IN  IF U64Leq(d, U64_MAX) THEN Some(d) ELSE None

\* ---------------------------------------------------------- responses
\* The outcome of one transport call (Result<Response<Body>, ureq::Error>):
\* a transport error, or a response with its status, the values of the
\* headers the program reads (None: absent) and its body (None: the body
\* cannot be read as a string).  A header value is a sequence of bytes: a
\* visible ASCII character each, or a byte that is not one.

TransportError == [ok |-> FALSE]

Response(status, retry_after, body, remaining, reset) ==
    [ok |-> TRUE, status |-> status, retry_after |-> retry_after,
     body |-> body, remaining |-> remaining, reset |-> reset]

\* A byte that is not visible ASCII: 0xE9
OBS_BYTE == "0xE9"

\* HeaderValue::to_str: the value as a string when all its bytes are
\* visible ASCII
to_str(v) == IF \E i \in 1..Len(v) : v[i] = OBS_BYTE THEN None ELSE Some(v)

\* Mutant: a value that is not a string is the same as an absent header,
\* and so is a string that is not an integer
headerIntegersOnly(v) ==
    IF v.some /\ to_str(v.val).some
         /\ \A i \in 1..Len(v.val) :
               v.val[i] \in {"0", "1", "2", "3", "4", "5", "6", "7", "8", "9", "+"}
    THEN v
    ELSE None

\* ReadableResponse::header: the value of a header as a string, if set and
\* a string
header(v) == IF v.some THEN to_str(v.val) ELSE None

\* StatusCode::is_client_error
is_client_error(status) == 400 <= status /\ status < 500

\* StatusCode::is_server_error
is_server_error(status) == 500 <= status /\ status < 600

\* ------------------------------------------------------------- Retrier

\* Mutant: the deadline is twice TOTAL_WAIT after the start
RetrierNewDoubleWait(method, url, t) ==
    [method |-> method, url |-> url, attempts |-> 0,
     stop_time |-> t + 2 * TOTAL_WAIT]

\* Retrier::new
RetrierNew(method, url, t) ==
    [method |-> method, url |-> url, attempts |-> 0, stop_time |-> t + TOTAL_WAIT]

\* RetryDecision and the Err side of handle()'s result
Success(resp) == [kind |-> "Success", status |-> resp.status]

Retry(delay) == [kind |-> "Retry", delay |-> delay]

\* RequestError::Send
SendError(method, url) == [kind |-> "Send", method |-> method, url |-> url]

\* RequestError::Status(StatusError::from(ReadableResponse::new(method, url, r)))
StatusErrorFrom(method, url, resp) ==
    [kind |-> "Status", method |-> method, url |-> url, status |-> resp.status]

\* The thread panics: no value is returned
Panic == [kind |-> "Panic"]

\* Mutant: a response that is not an error is reported as a send error
finalizeNoSuccess(r, resp) ==
    IF resp.ok /\ (is_client_error(resp.status) \/ is_server_error(resp.status))
    THEN StatusErrorFrom(r.method, r.url, resp)
    ELSE SendError(r.method, r.url)

\* Mutant: only a 5xx response is an error
finalizeServerOnly(r, resp) ==
    IF resp.ok /\ is_server_error(resp.status)
    THEN StatusErrorFrom(r.method, r.url, resp)
    ELSE IF resp.ok THEN Success(resp)
    ELSE SendError(r.method, r.url)

\* Retrier::finalize
finalize(r, resp) ==
    IF resp.ok /\ (is_client_error(resp.status) \/ is_server_error(resp.status))
    THEN StatusErrorFrom(r.method, r.url, resp)
    ELSE IF resp.ok THEN Success(resp)
    ELSE SendError(r.method, r.url)

\* BACKOFF_BASE.powi(k) seconds, in ticks: k multiplications by 5/4
RECURSIVE PowiTicks(_)
PowiTicks(k) ==
    IF k = 0 THEN TicksPerSec
    ELSE (PowiTicks(k - 1) * BACKOFF_BASE_NUM) \div BACKOFF_BASE_DEN

\* f64::clamp
Clamp(x, lo, hi) == IF x < lo THEN lo ELSE IF x > hi THEN hi ELSE x

\* Mutant: the exponent is attempts, not attempts - 1
BackoffExponentOff(attempts) ==
    IF attempts < 2
    THEN BACKOFF_FACTOR * (TicksPerSec \div FIRST_BACKOFF_DEN)
    ELSE Clamp(BACKOFF_FACTOR * PowiTicks(attempts), 0, Secs(BACKOFF_MAX))

\* The backoff of handle(), lines 89-97
Backoff(attempts) ==
    IF attempts < 2
    THEN BACKOFF_FACTOR * (TicksPerSec \div FIRST_BACKOFF_DEN)
    ELSE Clamp(BACKOFF_FACTOR * PowiTicks(attempts - 1), 0, Secs(BACKOFF_MAX))

\* time_till_timestamp: None when the timestamp is past.  UNIX_EPOCH +
\* Duration::from_secs(ts) panics when the sum does not fit SystemTime's
\* signed 64-bit seconds.
TimestampOverflows(ts) == ~U64Leq(ts, I64_MAX)

time_till_timestamp(ts, sysnow) ==
    IF DurationFromSecs(ts) >= sysnow THEN Some(DurationFromSecs(ts) - sysnow)
    ELSE None

\* Option<Duration>::unwrap_or_default
UnwrapOrZero(opt) == IF opt.some THEN opt.val ELSE 0

\* Mutant: the distance between the two Instants, whichever is later
SaturatingDurationSinceAbs(later, earlier) ==
    Max(later - earlier, earlier - later)

\* Instant::saturating_duration_since
SaturatingDurationSince(later, earlier) == Max(later - earlier, 0)

\* Mutant: one more retry is allowed
RetriesExhaustedLate(attempts) == attempts > RETRIES + 1

\* handle(), line 79: the attempts are used up
RetriesExhausted(attempts) == attempts > RETRIES

\* Mutant: the deadline is never found to have passed
DeadlinePassedNever(time_left) == FALSE

\* handle(), line 85: the deadline has passed
DeadlinePassed(time_left) == time_left = 0

\* What a match arm of handle() yields: the delay to retry after, or the
\* value handle() returns at once.
Delay(d) == [returned |-> FALSE, delay |-> d]

Return(decision) == [returned |-> TRUE, decision |-> decision]

\* Mutant: the delay is the header's value, not the value plus one
RetryAfterArmNoPlusOne(r, resp, v, time_left, wraps) ==
    LET n == ParseU64(v)
    IN  IF ~n.some THEN Delay(0)
        ELSE IF time_left < DurationFromSecs(n.val)
             THEN Return(StatusErrorFrom(r.method, r.url, resp))
        ELSE Delay(DurationFromSecs(n.val))

\* handle(), lines 101-110: a 403 with a Retry-After header v.
\* secs = v.parse::<u64>().ok().map(|n| n + 1): for n = u64::MAX the sum
\* overflows, which panics in a build with overflow checks and wraps to 0 in
\* a build without (wraps).
RetryAfterArm(r, resp, v, time_left, wraps) ==
    LET n == ParseU64(v)
    IN  IF ~n.some THEN Delay(0)
        ELSE IF n.val = U64_MAX
             THEN IF wraps THEN Delay(0) ELSE Return(Panic)
        ELSE IF time_left < DurationFromSecs(DigitsInc(n.val))
             THEN Return(StatusErrorFrom(r.method, r.url, resp))
        ELSE Delay(DurationFromSecs(DigitsInc(n.val)))

\* Mutant: the delay is the time till the reset, without the extra second
PrimaryRateLimitArmNoPlusOne(r, resp, time_left, sysnow) ==
    LET reset == IF header(resp.reset).some
                 THEN ParseU64(header(resp.reset).val)
                 ELSE None
    IN  IF ~reset.some THEN Delay(0)
        ELSE IF TimestampOverflows(reset.val) THEN Return(Panic)
        ELSE LET delay == UnwrapOrZero(time_till_timestamp(reset.val, sysnow))
             IN  IF time_left < delay
                 THEN Return(StatusErrorFrom(r.method, r.url, resp))
                 ELSE Delay(delay)

\* handle(), lines 112-131: a 403 whose body contains "rate limit" and
\* whose X-RateLimit-Remaining is "0" (the primary rate limit)
PrimaryRateLimitArm(r, resp, time_left, sysnow) ==
    LET reset == IF header(resp.reset).some
                 THEN ParseU64(header(resp.reset).val)
                 ELSE None
    IN  IF ~reset.some THEN Delay(0)
        ELSE IF TimestampOverflows(reset.val) THEN Return(Panic)
        ELSE LET delay == UnwrapOrZero(time_till_timestamp(reset.val, sysnow))
                          + Secs(1)
             IN  IF time_left < delay
                 THEN Return(StatusErrorFrom(r.method, r.url, resp))
                 ELSE Delay(delay)

\* Mutant: a 403 that has nothing to do with rate limits is retried too
ForbiddenArmRetryAll(r, resp, time_left, backoff, sysnow, wraps) ==
    IF header(resp.retry_after).some
    THEN RetryAfterArm(r, resp, header(resp.retry_after).val, time_left, wraps)
    ELSE IF resp.body.some /\ Contains(resp.body.val, RATE_LIMIT)
              /\ header(resp.remaining) = Some(<<"0">>)
    THEN PrimaryRateLimitArm(r, resp, time_left, sysnow)
    ELSE Delay(backoff)

\* handle(), lines 99-139: the arm of a 403 response
ForbiddenArm(r, resp, time_left, backoff, sysnow, wraps) ==
    IF header(resp.retry_after).some
    THEN RetryAfterArm(r, resp, header(resp.retry_after).val, time_left, wraps)
    ELSE IF resp.body.some /\ Contains(resp.body.val, RATE_LIMIT)
    THEN IF header(resp.remaining) = Some(<<"0">>)
         THEN PrimaryRateLimitArm(r, resp, time_left, sysnow)
         ELSE Delay(backoff)
    ELSE Return(StatusErrorFrom(r.method, r.url, resp))

\* Mutant: after a retry, a response that is not an error is answered with
\* the error of the earlier failure
MatchOutcomeKeepsFailure(r, resp, time_left, backoff, sysnow, wraps) ==
    IF resp.ok /\ resp.status = FORBIDDEN
    THEN ForbiddenArm(r, resp, time_left, backoff, sysnow, wraps)
    ELSE IF resp.ok /\ is_server_error(resp.status) THEN Delay(backoff)
    ELSE IF resp.ok /\ is_client_error(resp.status) THEN Return(finalize(r, resp))
    ELSE IF ~resp.ok THEN Delay(backoff)
    ELSE IF r.attempts >= 2 THEN Return(SendError(r.method, r.url))
    ELSE Return(finalize(r, resp))

\* Mutant: a 4xx response is retried like a 5xx response
MatchOutcomeRetryClient(r, resp, time_left, backoff, sysnow, wraps) ==
    IF resp.ok /\ resp.status = FORBIDDEN
    THEN ForbiddenArm(r, resp, time_left, backoff, sysnow, wraps)
    ELSE IF resp.ok /\ (is_server_error(resp.status) \/ is_client_error(resp.status))
    THEN Delay(backoff)
    ELSE IF ~resp.ok THEN Delay(backoff)
    ELSE Return(finalize(r, resp))

\* handle(), lines 98-144: the match on the outcome
MatchOutcome(r, resp, time_left, backoff, sysnow, wraps) ==
    IF resp.ok /\ resp.status = FORBIDDEN
    THEN ForbiddenArm(r, resp, time_left, backoff, sysnow, wraps)
    ELSE IF resp.ok /\ is_server_error(resp.status) THEN Delay(backoff)
    ELSE IF resp.ok /\ is_client_error(resp.status) THEN Return(finalize(r, resp))
    ELSE IF ~resp.ok THEN Delay(backoff)
    ELSE Return(finalize(r, resp))

\* Mutant: the deadline has passed only when the Instant is after it
handleDeadlineStrict(r, resp, t, wraps) ==
    LET r1 == [r EXCEPT !.attempts = r.attempts + 1]
        time_left == SaturatingDurationSince(r.stop_time, t)
        early == RetriesExhausted(r1.attempts) \/ t > r.stop_time
        backoff == Backoff(r1.attempts)
        arm == MatchOutcome(r1, resp, time_left, backoff, SystemNow(t), wraps)
    IN  [retrier |-> r1,
         backoff |-> IF early THEN None ELSE Some(backoff),
         decision |->
            IF early THEN finalize(r1, resp)
            ELSE IF arm.returned THEN arm.decision
            ELSE Retry(Min(arm.delay, time_left))]

\* Mutant: the delay is not clamped to the time left
handleNoClamp(r, resp, t, wraps) ==
    LET r1 == [r EXCEPT !.attempts = r.attempts + 1]
        time_left == SaturatingDurationSince(r.stop_time, t)
        early == RetriesExhausted(r1.attempts) \/ DeadlinePassed(time_left)
        backoff == Backoff(r1.attempts)
        arm == MatchOutcome(r1, resp, time_left, backoff, SystemNow(t), wraps)
    IN  [retrier |-> r1,
         backoff |-> IF early THEN None ELSE Some(backoff),
         decision |->
            IF early THEN finalize(r1, resp)
            ELSE IF arm.returned THEN arm.decision
            ELSE Retry(arm.delay)]

\* Retrier::handle at Instant t: the Retrier afterwards, what is returned,
\* and the local variable backoff (None when handle returns before line 89)
handle(r, resp, t, wraps) ==
    LET r1 == [r EXCEPT !.attempts = r.attempts + 1]
        time_left == SaturatingDurationSince(r.stop_time, t)
        early == RetriesExhausted(r1.attempts) \/ DeadlinePassed(time_left)
        backoff == Backoff(r1.attempts)
        arm == MatchOutcome(r1, resp, time_left, backoff, SystemNow(t), wraps)
    IN  [retrier |-> r1,
         backoff |-> IF early THEN None ELSE Some(backoff),
         decision |->
            IF early THEN finalize(r1, resp)
            ELSE IF arm.returned THEN arm.decision
            ELSE Retry(Min(arm.delay, time_left))]

\* ------------------------------------------------------ the environment
\* What the caller asks for and what the server and the network answer.

Requests ==
    {<<"GET", "/a">>, <<"POST", "/b">>, <<"PATCH", "/a">>, <<"PUT", "/b">>,
     <<"DELETE", "/a">>}

\* The time the caller lets pass between two requests: 0.6 s
IdleTicks == (3 * TicksPerSec) \div 5

\* A transport call returns at once, or it is slow.  In the runs of one
\* logical request a slow call returns when the time left until the
\* Retrier's deadline is one of Margins: 6 s, 1 s, 0.05 s, nothing, or one
\* second after the deadline.
Margins == {Secs(6), Secs(1), TicksPerSec \div 20, 0, 0 - Secs(1)}

Latencies(t, stop_time) ==
    {0} \cup {stop_time - m - t : m \in {x \in Margins : stop_time - x > t}}

\* In the runs of many logical requests a slow call takes 0.6 s or 2 s.
ClientLatencies == {0, IdleTicks, Secs(2)}

\* The most slow transport calls in one logical request
MaxSlow == 1

U64_MAX_STR == <<"1", "8", "4", "4", "6", "7", "4", "4", "0", "7", "3", "7",
                 "0", "9", "5", "5", "1", "6", "1", "5">>

\* Retry-After values: integers, a signed one, and ones that are not u64
RetryAfterValues ==
    {<<"5">>, <<"+", "5">>, <<"0">>, <<"4", "0", "0">>, <<"-", "1">>, U64_MAX_STR}

RateLimitBody == Some(RATE_LIMIT)

EmbeddedRateLimitBody == Some(<<"x">> \o RATE_LIMIT \o <<".">>)

\* Bodies without "rate limit": unreadable, empty, and "Rate limit"
OtherBodies ==
    {None, Some(<<>>), Some(<<"R", "a", "t", "e", " ", "l", "i", "m", "i", "t">>)}

RemainingValues == {None, Some(<<"0">>), Some(<<"5">>)}

\* X-RateLimit-Reset: absent, not a number, long past, 30 s and 400 s after
\* the origin of the clock, u64::MAX
ResetValues ==
    {None, Some(<<"n", "o">>), Some(<<"0">>), Some(<<"1", "3", "0">>),
     Some(<<"5", "0", "0">>), Some(U64_MAX_STR)}

OtherStatuses == {200, 399, 400, 499, 500, 599, 600}

Outcomes ==
    {TransportError}
    \cup {Response(st, None, Some(<<>>), None, None) : st \in OtherStatuses}
    \cup {Response(st, Some(<<"5">>), RateLimitBody, Some(<<"0">>), Some(<<"0">>)) :
             st \in {404, 500}}
    \cup {Response(FORBIDDEN, Some(ra), RateLimitBody, None, None) :
             ra \in RetryAfterValues}
    \cup {Response(FORBIDDEN, Some(<<"5">>), None, None, None)}
    \cup {Response(FORBIDDEN, Some(<<"-", "1">>), None, Some(<<"0">>),
                    Some(<<"5", "0", "0">>))}
    \cup {Response(FORBIDDEN, Some(<<OBS_BYTE>>), Some(<<>>), None, None)}
    \cup {Response(FORBIDDEN, Some(<<OBS_BYTE>>), RateLimitBody, Some(<<"5">>), None)}
    \cup {Response(FORBIDDEN, None, b, None, None) : b \in OtherBodies}
    \cup {Response(FORBIDDEN, None, Some(<<>>), Some(<<"0">>), Some(<<"1", "3", "0">>))}
    \cup {Response(FORBIDDEN, None, RateLimitBody, Some(<<"0">>), rst) :
             rst \in ResetValues}
    \cup {Response(FORBIDDEN, None, RateLimitBody, rem, None) :
             rem \in RemainingValues}
    \cup {Response(FORBIDDEN, None, RateLimitBody, Some(<<"5">>), Some(<<"1", "3", "0">>))}
    \cup {Response(FORBIDDEN, None, EmbeddedRateLimitBody, rem, Some(<<"1", "3", "0">>)) :
             rem \in {None, Some(<<"0">>)}}

\* The outcomes of the runs of many logical requests: a transport error, a
\* success, a 404, a 500, a 403 with Retry-After, a 403 that is not retried
ClientOutcomes ==
    {TransportError,
     Response(200, None, Some(<<>>), None, None),
     Response(404, None, Some(<<>>), None, None),
     Response(500, None, Some(<<>>), None, None),
     Response(FORBIDDEN, Some(<<"0">>), RateLimitBody, None, None),
     Response(FORBIDDEN, None, Some(<<>>), None, None)}

\* The requests of the runs of one logical request on a new client
FirstRequests == {<<"GET", "/a">>, <<"DELETE", "/b">>}

\* A 403 that says how long to wait: with Retry-After, or a primary rate limit
RateLimited(o) ==
    /\ o.ok
    /\ o.status = FORBIDDEN
    /\ \/ o.retry_after.some
       \/ o.remaining = Some(<<"0">>) /\ o.body.some /\ Contains(o.body.val, RATE_LIMIT)

\* The most such responses the server gives to one logical request
MaxRateLimited == 1

\* ------------------------------------------------------------- the state

VARIABLES
    pc,             \* where Client::request is: idle, send, handle, sleep, done, panicked
    now,            \* Instant::now()
    last_mutation,  \* Client::last_mutation
    method,         \* the method of the logical request
    url,            \* its URL
    retrier,        \* its Retrier
    resp,           \* the outcome of the latest transport call
    decision,       \* what Retrier::handle returned for it
    sent,           \* history: the transport calls made for the logical request
    limited,        \* history: the RateLimited outcomes among them
    slow,           \* history: the slow transport calls among them
    backoff,        \* history: the local variable backoff of the latest handle()
    slept,          \* history: how long request() slept for the throttle
    prev_start,     \* history: when the client's previous mutating call started
    gap             \* history: the latest mutating call's start minus prev_start

\* The state of the parts that are run on their own: building a StatusError
\* from a ReadableResponse
VARIABLES
    rr,             \* the ReadableResponse
    status_error,   \* the StatusError built from it
    reads,          \* history: how often the body stream was read
    seen            \* history: what rr.body() returned in handle()

bodyVars == <<rr, status_error, reads, seen>>

\* Decoding the body of a page response
VARIABLES
    item_type,      \* the item type T
    doc,            \* the text of the body
    page            \* the result of decoding it as Page<T>

pageVars == <<item_type, doc, page>>

\* A PaginationIter and the server it reads from
VARIABLES
    server,         \* the server: the page response of each URL
    next_url,       \* PaginationIter::next_url
    items,          \* PaginationIter::items, as the items not yet returned
    it_pc,          \* where the iterator is: ready (not in next), loop (in it)
    yielded,        \* history: the Some(..) values next has returned
    fetched,        \* history: the URLs requested
    returned        \* history: what the latest call of next returned

iterVars == <<server, next_url, items, it_pc, yielded, fetched, returned>>

\* A call of Client::request_json
VARIABLES
    result          \* None, then the type asked for while the call runs,
                    \* then what the call returned

jsonVars == <<result>>

\* What Client::request leaves alone
others == <<bodyVars, pageVars, iterVars, jsonVars>>

\* Threads.  Client holds a Cell and is not Sync: a second thread works
\* with a clone of the client.  The variables of Client::request are the
\* ones of the thread that is running; parked holds the ones of the other
\* thread (None in the runs of one thread).  The clock, now, is the same
\* for both.
VARIABLES
    waited,         \* history: the time slept between the attempts of the
                    \* logical request
    tid,            \* the thread that is running
    parked          \* the variables of the thread that is not

threadVars == <<tid, parked>>

clientVars == <<pc, now, last_mutation, method, url, retrier, resp, decision,
                sent, limited, slow, backoff, slept, prev_start, gap, waited,
                threadVars>>

vars == <<clientVars, others>>

\* No ReadableResponse is held
NoReadableResponse ==
    /\ rr = None
    /\ status_error = None
    /\ reads = 0
    /\ seen = None

\* ClientBuilder::build: last_mutation is Cell::new(None).  No request has
\* been made; method and url stand for the ones of the request to come.
NewClientFor(m, u) ==
    /\ pc = "idle"
    /\ now = 0
    /\ last_mutation = None
    /\ method = m
    /\ url = u
    /\ retrier = None
    /\ resp = None
    /\ decision = None
    /\ sent = 0
    /\ limited = 0
    /\ slow = 0
    /\ backoff = None
    /\ slept = 0
    /\ prev_start = None
    /\ gap = None
    /\ waited = 0
    /\ tid = 1
    /\ parked = None

NewClient == NewClientFor("GET", "/a")

\* No page is being decoded
NoPage ==
    /\ item_type = "Widget"
    /\ doc = <<>>
    /\ page = None

\* No PaginationIter exists
NoIterator ==
    /\ server = <<>>
    /\ next_url = None
    /\ items = None
    /\ it_pc = "ready"
    /\ yielded = <<>>
    /\ fetched = <<>>
    /\ returned = "nothing"

\* Client::request_json has not been called
NoJson == result = None

Init ==
    /\ NewClient
    /\ NoReadableResponse
    /\ NoPage
    /\ NoIterator
    /\ NoJson

\* Mutant: the throttle never sleeps
ThrottleDelayNoSleep(m, lm, t) == 0

\* Client::request, lines 150-159: how long to sleep for the throttle
ThrottleDelay(m, lm, t) ==
    IF is_mutating(m) /\ lm.some
    THEN Max(MUTATION_DELAY - SaturatingDurationSince(t, lm.val), 0)
    ELSE 0

\* Mutant: every method stamps the timestamp
StampMutationAlways(m, lm, t) == Some(t)

\* Client::request, lines 162-164: the timestamp after the top of the loop
StampMutation(m, lm, t) == IF is_mutating(m) THEN Some(t) ELSE lm

\* Client::request is called: the throttle's sleep, then Retrier::new
Call(m, u) ==
    /\ pc = "idle"
    /\ method' = m
    /\ url' = u
    /\ slept' = ThrottleDelay(m, last_mutation, now)
    /\ now' = now + slept'
    /\ retrier' = Some(RetrierNew(m, u, now'))
    /\ sent' = 0
    /\ limited' = 0
    /\ slow' = 0
    /\ waited' = 0
    /\ pc' = "send"
    /\ UNCHANGED <<last_mutation, resp, decision, backoff, prev_start, gap,
                   threadVars>>

\* A caller other than a PaginationIter calls Client::request
Request(m, u) ==
    /\ Call(m, u)
    /\ UNCHANGED others

\* Mutant: the timestamp is set before the first transport call only
SendStampsFirstAttempt(o, lat) ==
    /\ pc = "send"
    /\ RateLimited(o) => limited < MaxRateLimited
    /\ limited' = IF RateLimited(o) THEN limited + 1 ELSE limited
    /\ last_mutation' = IF sent = 0
                        THEN StampMutation(method, last_mutation, now)
                        ELSE last_mutation
    /\ prev_start' = IF method \in MutatingMethods THEN Some(now) ELSE prev_start
    /\ gap' = IF method \in MutatingMethods /\ prev_start.some
              THEN Some(now - prev_start.val)
              ELSE None
    /\ sent' = sent + 1
    /\ lat > 0 => slow < MaxSlow
    /\ slow' = IF lat > 0 THEN slow + 1 ELSE slow
    /\ now' = now + lat
    /\ resp' = Some(o)
    /\ decision' = None
    /\ pc' = "handle"
    /\ UNCHANGED <<method, url, retrier, backoff, slept, waited, threadVars>>
    /\ UNCHANGED others

\* The top of the loop and one transport call, which takes lat and ends in o
Send(o, lat) ==
    /\ pc = "send"
    /\ RateLimited(o) => limited < MaxRateLimited
    /\ limited' = IF RateLimited(o) THEN limited + 1 ELSE limited
    /\ last_mutation' = StampMutation(method, last_mutation, now)
    /\ prev_start' = IF method \in MutatingMethods THEN Some(now) ELSE prev_start
    /\ gap' = IF method \in MutatingMethods /\ prev_start.some
              THEN Some(now - prev_start.val)
              ELSE None
    /\ sent' = sent + 1
    /\ lat > 0 => slow < MaxSlow
    /\ slow' = IF lat > 0 THEN slow + 1 ELSE slow
    /\ now' = now + lat
    /\ resp' = Some(o)
    /\ decision' = None
    /\ pc' = "handle"
    /\ UNCHANGED <<method, url, retrier, backoff, slept, waited, threadVars>>
    /\ UNCHANGED others

\* retrier.handle(resp)? and the match on its result
Handle(wraps) ==
    /\ pc = "handle"
    /\ LET h == handle(retrier.val, resp.val, now, wraps)
       IN  /\ retrier' = Some(h.retrier)
           /\ decision' = Some(h.decision)
           /\ backoff' = h.backoff
           /\ pc' = CASE h.decision.kind = "Retry" -> "sleep"
                      [] h.decision.kind = "Panic" -> "panicked"
                      [] OTHER -> "done"
    /\ UNCHANGED <<now, last_mutation, method, url, resp, sent, limited, slow,
                   slept, prev_start, gap, waited, threadVars>>
    /\ UNCHANGED others

\* sleep(delay) after RetryDecision::Retry(delay)
Sleep ==
    /\ pc = "sleep"
    /\ now' = now + decision.val.delay
    /\ resp' = None
    /\ decision' = None
    /\ backoff' = None
    /\ waited' = waited + decision.val.delay
    /\ pc' = "send"
    /\ UNCHANGED <<last_mutation, method, url, retrier, sent, limited, slow,
                   slept, prev_start, gap, threadVars>>
    /\ UNCHANGED others

\* An Instant with the origin of the clock moved by t
Rebase(inst, t) ==
    IF inst.some THEN Some(Max(inst.val - t, 0 - MUTATION_DELAY)) ELSE None

\* The variables of the parked thread with the origin of the clock moved
\* by t
RebaseParked(p, t) ==
    IF p.some
    THEN Some([p.val EXCEPT
                 !.last_mutation = Rebase(@, t),
                 !.prev_start = Rebase(@, t),
                 !.retrier = IF @.some
                             THEN Some([@.val EXCEPT !.stop_time = @ - t])
                             ELSE @])
    ELSE None

\* Mutant: a request that ends with an error clears the timestamp
ReturnsForgetsFailure ==
    /\ pc = "done"
    /\ pc' = "idle"
    /\ now' = 0
    /\ last_mutation' = IF decision.val.kind = "Success"
                        THEN Rebase(last_mutation, now)
                        ELSE None
    /\ prev_start' = Rebase(prev_start, now)
    /\ retrier' = None
    /\ resp' = None
    /\ decision' = None
    /\ sent' = 0
    /\ limited' = 0
    /\ slow' = 0
    /\ backoff' = None
    /\ slept' = 0
    /\ gap' = None
    /\ waited' = 0
    /\ parked' = RebaseParked(parked, now)
    /\ UNCHANGED <<method, url, tid>>

\* Client::request returns to its caller; the Retrier is dropped
Returns ==
    /\ pc = "done"
    /\ pc' = "idle"
    /\ now' = 0
    /\ last_mutation' = Rebase(last_mutation, now)
    /\ prev_start' = Rebase(prev_start, now)
    /\ retrier' = None
    /\ resp' = None
    /\ decision' = None
    /\ sent' = 0
    /\ limited' = 0
    /\ slow' = 0
    /\ backoff' = None
    /\ slept' = 0
    /\ gap' = None
    /\ waited' = 0
    /\ parked' = RebaseParked(parked, now)
    /\ UNCHANGED <<method, url, tid>>

\* Client::request returns to a caller other than a PaginationIter
Finish ==
    /\ Returns
    /\ UNCHANGED others

\* Time passes between two logical requests
Idle ==
    /\ pc = "idle"
    /\ last_mutation' = Rebase(last_mutation, IdleTicks)
    /\ prev_start' = Rebase(prev_start, IdleTicks)
    /\ parked' = RebaseParked(parked, IdleTicks)
    /\ UNCHANGED <<pc, now, method, url, retrier, resp, decision, sent, limited,
                   slow, backoff, slept, gap, waited, tid>>
    /\ UNCHANGED others

\* One transport call of a client used for many logical requests
ClientSend == \E o \in ClientOutcomes, lat \in ClientLatencies : Send(o, lat)

\* A client used for one logical request after another
Next ==
    \/ \E rq \in Requests : Request(rq[1], rq[2])
    \/ ClientSend
    \/ \E wraps \in BOOLEAN : Handle(wraps)
    \/ Sleep
    \/ Finish
    \/ Idle

Spec == Init /\ [][Next]_vars

\* One transport call of the first logical request, with every outcome
RetrierSend ==
    /\ pc = "send"
    /\ \E o \in Outcomes, lat \in Latencies(now, retrier.val.stop_time) : Send(o, lat)

\* One logical request on a new client, with every outcome of Outcomes
NextRetrier ==
    \/ \E rq \in FirstRequests : Request(rq[1], rq[2])
    \/ RetrierSend
    \/ \E wraps \in BOOLEAN : Handle(wraps)
    \/ Sleep

SpecRetrier == Init /\ [][NextRetrier]_vars

\* ------------------------------------------------------------- JSON text

\* The printable ASCII characters in the order of their codes: from 32 to
\* 95, and from 97 to 126
AsciiUpper ==
    <<" ", "!", "\"", "#", "$", "%", "&", "'", "(", ")", "*",
    "+", ",", "-", ".", "/", "0", "1", "2", "3", "4", "5", "6", "7", "8", "9",
    ":", ";", "<", "=", ">", "?", "@", "A", "B", "C", "D", "E", "F", "G", "H",
    "I", "J", "K", "L", "M", "N", "O", "P", "Q", "R", "S", "T", "U", "V", "W",
    "X", "Y", "Z", "[", "\\", "]", "^", "_">>

AsciiLower ==
    <<"a", "b", "c", "d", "e", "f", "g", "h", "i", "j", "k",
    "l", "m", "n", "o", "p", "q", "r", "s", "t", "u", "v", "w", "x", "y", "z",
    "{", "|", "}", "~">>

\* The code of a character; the control characters are below the others
CharCode(c) ==
    IF c = "\n" THEN 10
    ELSE IF c = "\t" THEN 9
    ELSE IF c = "\r" THEN 13
    ELSE IF \E i \in 1..Len(AsciiLower) : AsciiLower[i] = c
    THEN 96 + (CHOOSE i \in 1..Len(AsciiLower) : AsciiLower[i] = c)
    ELSE 31 + (CHOOSE i \in 1..Len(AsciiUpper) : AsciiUpper[i] = c)

\* The ordering of str: a < b, by the codes of the characters
RECURSIVE StrLess(_, _)
StrLess(a, b) ==
    IF b = <<>> THEN FALSE
    ELSE IF a = <<>> THEN TRUE
    ELSE IF Head(a) = Head(b) THEN StrLess(Tail(a), Tail(b))
    ELSE CharCode(Head(a)) < CharCode(Head(b))

\* serde_json::Value
JNull == [t |-> "null"]

JBool(b) == [t |-> "bool", b |-> b]

\* A number as its text has it: the sign, the digits of the integer part
\* and the digits after the point (none for an integer)
JNumber(neg, int, frac) == [t |-> "num", neg |-> neg, int |-> int, frac |-> frac]

JString(s) == [t |-> "str", s |-> s]

JArray(a) == [t |-> "arr", a |-> a]

\* An object: its members in the order of serde_json's map
JObject(o) == [t |-> "obj", o |-> o]

Member(k, v) == [k |-> k, v |-> v]

\* serde_json::Map::insert on a map ordered by key (a BTreeMap): a member
\* with the same key is replaced
RECURSIVE MapInsert(_, _)
MapInsert(o, m) ==
    IF o = <<>> THEN <<m>>
    ELSE IF Head(o).k = m.k THEN <<m>> \o Tail(o)
    ELSE IF StrLess(m.k, Head(o).k) THEN <<m>> \o o
    ELSE <<Head(o)>> \o MapInsert(Tail(o), m)

\* Does the text lit stand at position i of s
MatchAt(s, i, lit) ==
    /\ i + Len(lit) - 1 <= Len(s)
    /\ SubSeq(s, i, i + Len(lit) - 1) = lit

CharAt(s, i) == IF i <= Len(s) THEN s[i] ELSE ""

Whitespace == {" ", "\n", "\t", "\r"}

\* The first position from i that holds no whitespace
RECURSIVE SkipWhitespace(_, _)
SkipWhitespace(s, i) ==
    IF CharAt(s, i) \in Whitespace THEN SkipWhitespace(s, i + 1) ELSE i

\* The first position from i that holds no digit
RECURSIVE SkipDigits(_, _)
SkipDigits(s, i) ==
    IF i <= Len(s) /\ IsDigit(s[i]) THEN SkipDigits(s, i + 1) ELSE i

\* The result of a parsing step: a value and the position after it, or a
\* failure
Parsed(v, i) == [ok |-> TRUE, v |-> v, i |-> i]

ParseFailure == [ok |-> FALSE]

\* A string literal whose opening quote is before position i; acc holds the
\* characters read so far.  Of the escapes, \" \\ and \n are read.
RECURSIVE ParseStringTail(_, _, _)
ParseStringTail(s, i, acc) ==
    IF i > Len(s) \/ CharCode(s[i]) < 32 THEN ParseFailure
    ELSE IF s[i] = "\"" THEN Parsed(acc, i + 1)
    ELSE IF s[i] = "\\"
    THEN IF CharAt(s, i + 1) \in {"\"", "\\"}
         THEN ParseStringTail(s, i + 2, Append(acc, s[i + 1]))
         ELSE IF CharAt(s, i + 1) = "n"
         THEN ParseStringTail(s, i + 2, Append(acc, "\n"))
         ELSE ParseFailure
    ELSE ParseStringTail(s, i + 1, Append(acc, s[i]))

\* A number at position i: -? (0 | [1-9][0-9]*) (. [0-9]+)?  Numbers with an
\* exponent are outside the model.
ParseNumber(s, i) ==
    LET neg == CharAt(s, i) = "-"
        i0 == IF neg THEN i + 1 ELSE i
        i1 == IF CharAt(s, i0) = "0" THEN i0 + 1 ELSE SkipDigits(s, i0)
        point == CharAt(s, i1) = "."
        i2 == IF point THEN SkipDigits(s, i1 + 1) ELSE i1
    IN  IF i1 = i0 \/ (point /\ i2 = i1 + 1) \/ CharAt(s, i2) \in {"e", "E"}
        THEN ParseFailure
        ELSE Parsed(JNumber(neg, SubSeq(s, i0, i1 - 1),
                            IF point THEN SubSeq(s, i1 + 1, i2 - 1) ELSE <<>>), i2)

RECURSIVE ParseValue(_, _), ParseElements(_, _, _), ParseMembers(_, _, _)

\* The elements of an array after "[" or ","; acc holds the ones read
ParseElements(s, i, acc) ==
    LET e == ParseValue(s, SkipWhitespace(s, i))
        j == IF e.ok THEN SkipWhitespace(s, e.i) ELSE 0
    IN  IF ~e.ok THEN ParseFailure
        ELSE IF CharAt(s, j) = "," THEN ParseElements(s, j + 1, Append(acc, e.v))
        ELSE IF CharAt(s, j) = "]" THEN Parsed(JArray(Append(acc, e.v)), j + 1)
        ELSE ParseFailure

\* The members of an object after "{" or ","; acc holds the map so far
ParseMembers(s, i, acc) ==
    LET i0 == SkipWhitespace(s, i)
        k == IF CharAt(s, i0) = "\"" THEN ParseStringTail(s, i0 + 1, <<>>)
             ELSE ParseFailure
        i1 == IF k.ok THEN SkipWhitespace(s, k.i) ELSE 0
        v == IF k.ok /\ CharAt(s, i1) = ":"
             THEN ParseValue(s, SkipWhitespace(s, i1 + 1))
             ELSE ParseFailure
        j == IF v.ok THEN SkipWhitespace(s, v.i) ELSE 0
        map == IF v.ok THEN MapInsert(acc, Member(k.v, v.v)) ELSE acc
    IN  IF ~v.ok THEN ParseFailure
        ELSE IF CharAt(s, j) = "," THEN ParseMembers(s, j + 1, map)
        ELSE IF CharAt(s, j) = "}" THEN Parsed(JObject(map), j + 1)
        ELSE ParseFailure

\* The JSON value at position i
ParseValue(s, i) ==
    LET c == CharAt(s, i)
    IN  IF MatchAt(s, i, <<"n", "u", "l", "l">>) THEN Parsed(JNull, i + 4)
        ELSE IF MatchAt(s, i, <<"t", "r", "u", "e">>) THEN Parsed(JBool(TRUE), i + 4)
        ELSE IF MatchAt(s, i, <<"f", "a", "l", "s", "e">>)
        THEN Parsed(JBool(FALSE), i + 5)
        ELSE IF c = "\""
        THEN LET r == ParseStringTail(s, i + 1, <<>>)
             IN  IF r.ok THEN Parsed(JString(r.v), r.i) ELSE ParseFailure
        ELSE IF c = "-" \/ IsDigit(c) THEN ParseNumber(s, i)
        ELSE IF c = "["
        THEN IF CharAt(s, SkipWhitespace(s, i + 1)) = "]"
             THEN Parsed(JArray(<<>>), SkipWhitespace(s, i + 1) + 1)
             ELSE ParseElements(s, i + 1, <<>>)
        ELSE IF c = "{"
        THEN IF CharAt(s, SkipWhitespace(s, i + 1)) = "}"
             THEN Parsed(JObject(<<>>), SkipWhitespace(s, i + 1) + 1)
             ELSE ParseMembers(s, i + 1, <<>>)
        ELSE ParseFailure

\* serde_json::from_str::<Value>(s).ok(): the whole text is one value
\* between whitespace
from_str(s) ==
    LET r == ParseValue(s, SkipWhitespace(s, 1))
    IN  IF r.ok /\ SkipWhitespace(s, r.i) = Len(s) + 1 THEN Some(r.v) ELSE None

\* The text of a number: an integer as its digits; a number with a point
\* without the zeros at the end of the fraction, of which one digit stays;
\* "-0" is the float -0.0
RECURSIVE StripTrailingZeros(_)
StripTrailingZeros(d) ==
    IF Len(d) > 1 /\ d[Len(d)] = "0"
    THEN StripTrailingZeros(SubSeq(d, 1, Len(d) - 1))
    ELSE d

NumberText(n) ==
    (IF n.neg THEN <<"-">> ELSE <<>>)
    \o n.int
    \o (IF n.frac # <<>> THEN <<".">> \o StripTrailingZeros(n.frac)
        ELSE IF n.neg /\ n.int = <<"0">> THEN <<".", "0">>
        ELSE <<>>)

\* A string between quotes, with " \ and line feed escaped
RECURSIVE Escaped(_)
Escaped(s) ==
    IF s = <<>> THEN <<>>
    ELSE (IF Head(s) \in {"\"", "\\"} THEN <<"\\", Head(s)>>
          ELSE IF Head(s) = "\n" THEN <<"\\", "n">>
          ELSE <<Head(s)>>) \o Escaped(Tail(s))

Quoted(s) == <<"\"">> \o Escaped(s) \o <<"\"">>

\* The indentation of nesting depth n: two spaces for each level
RECURSIVE Indent(_)
Indent(n) == IF n = 0 THEN <<>> ELSE <<" ", " ">> \o Indent(n - 1)

RECURSIVE PrettyValue(_, _), PrettyElements(_, _), PrettyMembers(_, _)

\* The elements of a non-empty array at depth n, one on a line
PrettyElements(a, n) ==
    Indent(n) \o PrettyValue(Head(a), n)
    \o (IF Tail(a) = <<>> THEN <<"\n">>
        ELSE <<",", "\n">> \o PrettyElements(Tail(a), n))

\* The members of a non-empty object at depth n, one on a line
PrettyMembers(o, n) ==
    Indent(n) \o Quoted(Head(o).k) \o <<":", " ">> \o PrettyValue(Head(o).v, n)
    \o (IF Tail(o) = <<>> THEN <<"\n">>
        ELSE <<",", "\n">> \o PrettyMembers(Tail(o), n))

\* The text of a value that starts at depth n
PrettyValue(v, n) ==
    CASE v.t = "null" -> <<"n", "u", "l", "l">>
      [] v.t = "bool" -> IF v.b THEN <<"t", "r", "u", "e">>
                         ELSE <<"f", "a", "l", "s", "e">>
      [] v.t = "num" -> NumberText(v)
      [] v.t = "str" -> Quoted(v.s)
      [] v.t = "arr" ->
            IF v.a = <<>> THEN <<"[", "]">>
            ELSE <<"[", "\n">> \o PrettyElements(v.a, n + 1) \o Indent(n) \o <<"]">>
      [] v.t = "obj" ->
            IF v.o = <<>> THEN <<"{", "}">>
            ELSE <<"{", "\n">> \o PrettyMembers(v.o, n + 1) \o Indent(n) \o <<"}">>

\* serde_json::to_string_pretty
to_string_pretty(v) == PrettyValue(v, 0)

\* ------------------------------------------------------------ Content-Type

\* The first position of character c in s, 0 when there is none
RECURSIVE IndexFrom(_, _, _)
IndexFrom(s, c, i) ==
    IF i > Len(s) THEN 0 ELSE IF s[i] = c THEN i ELSE IndexFrom(s, c, i + 1)

IndexOf(s, c) == IndexFrom(s, c, 1)

\* The last position of character c in s, 0 when there is none
RECURSIVE LastIndexOf(_, _)
LastIndexOf(s, c) ==
    IF s = <<>> THEN 0
    ELSE IF s[Len(s)] = c THEN Len(s)
    ELSE LastIndexOf(SubSeq(s, 1, Len(s) - 1), c)

\* The characters of a media type's names: lower-case letters, digits and
\* some punctuation
TokenChars ==
    {"a", "b", "c", "d", "e", "f", "g", "h", "i", "j", "k", "l", "m", "n", "o",
     "p", "q", "r", "s", "t", "u", "v", "w", "x", "y", "z"}
    \cup DOMAIN DigitVal \cup {"-", ".", "+", "_"}

IsToken(s) == s # <<>> /\ \A i \in 1..Len(s) : s[i] \in TokenChars

\* str::parse::<Mime>().ok() of a value in lower case: type / subtype, the
\* subtype ending at its last "+" if it has one after its first character,
\* the suffix after that "+"; what follows the first ";" are parameters,
\* which are taken to be well formed
ParseMime(s) ==
    LET semicolon == IndexOf(s, ";")
        essence == IF semicolon = 0 THEN s ELSE SubSeq(s, 1, semicolon - 1)
        slash == IndexOf(essence, "/")
        type == SubSeq(essence, 1, slash - 1)
        sub == SubSeq(essence, slash + 1, Len(essence))
        plus == LastIndexOf(sub, "+")
    IN  IF slash = 0 \/ ~IsToken(type) \/ ~IsToken(sub)
        THEN None
        ELSE Some([type |-> type,
                   subtype |-> IF plus > 1 THEN SubSeq(sub, 1, plus - 1) ELSE sub,
                   suffix |-> IF plus > 1
                              THEN Some(SubSeq(sub, plus + 1, Len(sub)))
                              ELSE None])

APPLICATION == <<"a", "p", "p", "l", "i", "c", "a", "t", "i", "o", "n">>

JSON == <<"j", "s", "o", "n">>

\* is_json_content_type
is_json_content_type(ct_value) ==
    LET ct == ParseMime(ct_value)
    IN  /\ ct.some
        /\ ct.val.type = APPLICATION
        /\ (ct.val.subtype = JSON \/ ct.val.suffix = Some(JSON))

\* ------------------------------------------------- building a StatusError

\* ReadableBody::Unread: a body stream; reading it to a string gives stream,
\* None when that fails
Unread(stream) == [read |-> FALSE, stream |-> stream]

\* ReadableBody::Read
Read(text) == [read |-> TRUE, text |-> text]

\* ReadableResponse::new; content_type is what header(CONTENT_TYPE) returns,
\* None when the header is not set or is not a string
ReadableResponseNew(m, u, status, content_type, stream) ==
    [method |-> m, url |-> u, status |-> status,
     content_type |-> content_type, body |-> Unread(stream)]

\* Mutant: the body is read from the stream at every call; a stream that
\* has been read gives an empty text
as_strRereads(body) ==
    LET text == IF body.read THEN Some(<<>>) ELSE body.stream
    IN  [body |-> Read(text), str |-> text, read_stream |-> TRUE]

\* ReadableBody::as_str: the body afterwards, the text returned, and
\* whether the stream was read
as_str(body) ==
    LET text == IF body.read THEN body.text ELSE body.stream
    IN  [body |-> Read(text), str |-> text, read_stream |-> ~body.read]

\* Mutant: an empty body is returned as an empty string
pretty_bodyKeepsEmpty(value) ==
    LET b == as_str(value.body)
        json == IF b.str.some THEN from_str(b.str.val) ELSE None
    IN  [body |-> b.body,
         read_stream |-> b.read_stream,
         pretty |->
            IF value.content_type.some /\ is_json_content_type(value.content_type.val)
            THEN IF json.some THEN Some(to_string_pretty(json.val)) ELSE None
            ELSE b.str]

\* ReadableResponse::pretty_body: the body afterwards and the text returned
pretty_body(value) ==
    LET b == as_str(value.body)
        json == IF b.str.some THEN from_str(b.str.val) ELSE None
    IN  [body |-> b.body,
         read_stream |-> b.read_stream,
         pretty |->
            IF value.content_type.some /\ is_json_content_type(value.content_type.val)
            THEN IF json.some THEN Some(to_string_pretty(json.val)) ELSE None
            ELSE IF b.str.some /\ b.str.val # <<>> THEN b.str ELSE None]

\* impl From<ReadableResponse> for StatusError, with the body
StatusErrorFromReadable(value) ==
    [method |-> value.method, url |-> value.url, status |-> value.status,
     body |-> pretty_body(value).pretty]

\* The values of Content-Type
CT_JSON == <<"a", "p", "p", "l", "i", "c", "a", "t", "i", "o", "n", "/", "j",
    "s", "o", "n">>

CT_JSON_CHARSET == <<"a", "p", "p", "l", "i", "c", "a", "t", "i", "o", "n",
    "/", "j", "s", "o", "n", ";", " ", "c", "h", "a", "r", "s", "e", "t", "=",
    "u", "t", "f", "-", "8">>

CT_GITHUB_JSON == <<"a", "p", "p", "l", "i", "c", "a", "t", "i", "o", "n",
    "/", "v", "n", "d", ".", "g", "i", "t", "h", "u", "b", "+", "j", "s", "o",
    "n">>

CT_PLUS_FIRST == <<"a", "p", "p", "l", "i", "c", "a", "t", "i", "o", "n", "/",
    "+", "j", "s", "o", "n">>

CT_TEXT == <<"t", "e", "x", "t", "/", "p", "l", "a", "i", "n">>

CT_HTML_CHARSET == <<"t", "e", "x", "t", "/", "h", "t", "m", "l", ";", " ",
    "c", "h", "a", "r", "s", "e", "t", "=", "u", "t", "f", "-", "8">>

CT_OCTETS == <<"a", "p", "p", "l", "i", "c", "a", "t", "i", "o", "n", "/",
    "o", "c", "t", "e", "t", "-", "s", "t", "r", "e", "a", "m">>

CT_NO_SLASH == <<"j", "s", "o", "n">>

CT_TEXT_JSON == <<"t", "e", "x", "t", "/", "j", "s", "o", "n">>

CT_TEXT_PLUS_JSON == <<"t", "e", "x", "t", "/", "x", "+", "j", "s", "o", "n">>

CT_JSONX == <<"a", "p", "p", "l", "i", "c", "a", "t", "i", "o", "n", "/", "j",
    "s", "o", "n", "x">>

ContentTypes ==
    {None} \cup {Some(ct) : ct \in {CT_JSON, CT_JSON_CHARSET, CT_GITHUB_JSON, CT_PLUS_FIRST,
                               CT_TEXT, CT_HTML_CHARSET, CT_OCTETS, CT_NO_SLASH,
                               CT_TEXT_JSON, CT_TEXT_PLUS_JSON, CT_JSONX}}

\* The texts of bodies
\* Not Found
BODY_TEXT == <<"N", "o", "t", " ", "F", "o", "u", "n", "d">>

\* {"message":"Not Found"}
BODY_MESSAGE == <<"{", "\"", "m", "e", "s", "s", "a", "g", "e", "\"", ":",
    "\"", "N", "o", "t", " ", "F", "o", "u", "n", "d", "\"", "}">>

\* {"a":[1,true,null],"b":{}}
BODY_NESTED == <<"{", "\"", "a", "\"", ":", "[", "1", ",", "t", "r", "u", "e",
    ",", "n", "u", "l", "l", "]", ",", "\"", "b", "\"", ":", "{", "}", "}">>

\*  {"a" : 1.50, "b" : "x\"y", "b" : -2}\n
BODY_SPACED == <<" ", "{", "\"", "a", "\"", " ", ":", " ", "1", ".", "5", "0",
    ",", " ", "\"", "b", "\"", " ", ":", " ", "\"", "x", "\\", "\"", "y",
    "\"", ",", " ", "\"", "b", "\"", " ", ":", " ", "-", "2", "}", "\n">>

\* []
BODY_EMPTY_ARRAY == <<"[", "]">>

\* 17
BODY_NUMBER == <<"1", "7">>

\* {"a":1} x
BODY_TRAILING == <<"{", "\"", "a", "\"", ":", "1", "}", " ", "x">>

\* {"a":1,}
BODY_COMMA == <<"{", "\"", "a", "\"", ":", "1", ",", "}">>

\* {"message":"rate limit
BODY_OPEN == <<"{", "\"", "m", "e", "s", "s", "a", "g", "e", "\"", ":", "\"",
    "r", "a", "t", "e", " ", "l", "i", "m", "i", "t">>

\* What reading a body gives: a failure, nothing, or a text
BodyStreams ==
    {None, Some(<<>>)}
    \cup {Some(b) : b \in {BODY_TEXT, BODY_MESSAGE, BODY_NESTED, BODY_SPACED,
                           BODY_EMPTY_ARRAY, BODY_NUMBER, BODY_TRAILING,
                           BODY_COMMA, BODY_OPEN}}

ErrorStatuses == {FORBIDDEN, 404, 500}

ReadableResponses ==
    {ReadableResponseNew("GET", "/a", st, ct, b) :
        st \in ErrorStatuses, ct \in ContentTypes, b \in BodyStreams}

\* A response with an error status has been received
InitBody ==
    /\ NewClient
    /\ rr \in {Some(r) : r \in ReadableResponses}
    /\ status_error = None
    /\ reads = 0
    /\ seen = None
    /\ NoPage
    /\ NoIterator
    /\ NoJson

\* rr.body() in the 403 arm of Retrier::handle, line 111
ReadBody ==
    /\ rr.some
    /\ status_error = None
    /\ rr.val.status = FORBIDDEN
    /\ ~rr.val.body.read
    /\ rr' = Some([rr.val EXCEPT !.body = as_str(@).body])
    /\ seen' = Some(as_str(rr.val.body).str)
    /\ reads' = IF as_str(rr.val.body).read_stream THEN reads + 1 ELSE reads
    /\ UNCHANGED <<clientVars, status_error, pageVars, iterVars, jsonVars>>

\* StatusError::from(rr).  The ReadableResponse is consumed; rr keeps it,
\* with its body read, as the record of what the error was built from.
IntoStatusError ==
    /\ rr.some
    /\ status_error = None
    /\ status_error' = Some(StatusErrorFromReadable(rr.val))
    /\ rr' = Some([rr.val EXCEPT !.body = pretty_body(rr.val).body])
    /\ reads' = IF pretty_body(rr.val).read_stream THEN reads + 1 ELSE reads
    /\ UNCHANGED <<clientVars, seen, pageVars, iterVars, jsonVars>>

NextBody ==
    \/ ReadBody
    \/ IntoStatusError

SpecBody == InitBody /\ [][NextBody]_vars

\* ------------------------------------------------------- decoding a page

\* The item types T of the model: a struct Widget {name: String, color:
\* String, power: u64} as in the tests of page.rs, String, and u64
ItemTypes == {"Widget", "String", "u64"}

\* Deserializing a u64: a number without sign and fraction, at most u64::MAX
IsU64(v) ==
    /\ v.t = "num"
    /\ ~v.neg
    /\ v.frac = <<>>
    /\ U64Leq(v.int, U64_MAX)

\* The value of the member with key k of an object's members, if any
RECURSIVE get(_, _)
get(o, k) ==
    IF o = <<>> THEN None
    ELSE IF Head(o).k = k THEN Some(Head(o).v)
    ELSE get(Tail(o), k)

NAME == <<"n", "a", "m", "e">>

COLOR == <<"c", "o", "l", "o", "r">>

POWER == <<"p", "o", "w", "e", "r">>

\* T::deserialize for the item type T: the item, or None.  A derived struct
\* is read from an object that has its fields, other members ignored, or
\* from an array of its fields in order.
DeserializeItem(T, v) ==
    CASE T = "String" -> IF v.t = "str" THEN Some(v.s) ELSE None
      [] T = "u64" -> IF IsU64(v) THEN Some(v.int) ELSE None
      [] T = "Widget" ->
            LET f == IF v.t = "obj"
                     THEN <<get(v.o, NAME), get(v.o, COLOR), get(v.o, POWER)>>
                     ELSE IF v.t = "arr" /\ Len(v.a) = 3
                     THEN <<Some(v.a[1]), Some(v.a[2]), Some(v.a[3])>>
                     ELSE <<None, None, None>>
            IN  IF /\ f[1].some /\ f[1].val.t = "str"
                   /\ f[2].some /\ f[2].val.t = "str"
                   /\ f[3].some /\ IsU64(f[3].val)
                THEN Some([name |-> f[1].val.s, color |-> f[2].val.s,
                           power |-> f[3].val.int])
                ELSE None

\* Mutant: an empty array is not a Vec<T>
DeserializeVecNonEmpty(T, v) ==
    IF v.t = "arr" /\ v.a # <<>>
          /\ \A i \in 1..Len(v.a) : DeserializeItem(T, v.a[i]).some
    THEN Some([i \in 1..Len(v.a) |-> DeserializeItem(T, v.a[i]).val])
    ELSE None

\* Vec::<T>::deserialize: the items of an array whose elements all are T
DeserializeVec(T, v) ==
    IF v.t = "arr" /\ \A i \in 1..Len(v.a) : DeserializeItem(T, v.a[i]).some
    THEN Some([i \in 1..Len(v.a) |-> DeserializeItem(T, v.a[i]).val])
    ELSE None

\* MapPageValue
Count(n) == [variant |-> "Count", count |-> n]

Bool(b) == [variant |-> "Bool", bool |-> b]

List(lst) == [variant |-> "List", list |-> lst]

Other == [variant |-> "Other"]

\* Mutant: every array is a List, of the elements that are T
MapPageValueAnyArray(T, v) ==
    IF IsU64(v) THEN Count(v.int)
    ELSE IF v.t = "bool" THEN Bool(v.b)
    ELSE IF v.t = "arr"
    THEN List(IF DeserializeVec(T, v).some THEN DeserializeVec(T, v).val ELSE <<>>)
    ELSE Other

\* MapPageValue::<T>::deserialize, an untagged enum: the first variant, in
\* the order of the declaration, that the value deserializes as
MapPageValueOf(T, v) ==
    IF IsU64(v) THEN Count(v.int)
    ELSE IF v.t = "bool" THEN Bool(v.b)
    ELSE IF DeserializeVec(T, v).some THEN List(DeserializeVec(T, v).val)
    ELSE Other

\* Mutant: a Bool counts as 0 or 1
as_u64Lenient(value) ==
    IF value.variant = "Count" THEN Some(value.count)
    ELSE IF value.variant = "Bool"
    THEN Some(IF value.bool THEN <<"1">> ELSE <<"0">>)
    ELSE None

\* MapPageValue::as_u64
as_u64(value) == IF value.variant = "Count" THEN Some(value.count) ELSE None

\* MapPageValue::as_bool
as_bool(value) == IF value.variant = "Bool" THEN Some(value.bool) ELSE None

\* MapPageValue::into_list
into_list(value) == IF value.variant = "List" THEN Some(value.list) ELSE None

\* RawPage
RawArray(list) == [variant |-> "Array", items |-> list]

RawMap(map) == [variant |-> "Map", map |-> map]

\* RawPage::<T>::deserialize, an untagged enum: Array, then Map; None when
\* the value is neither
RawPageOf(T, v) ==
    IF DeserializeVec(T, v).some THEN Some(RawArray(DeserializeVec(T, v).val))
    ELSE IF v.t = "obj"
    THEN Some(RawMap([i \in 1..Len(v.o) |->
                        Member(v.o[i].k, MapPageValueOf(T, v.o[i].v))]))
    ELSE None

\* Page
PageOf(list, total_count, incomplete_results) ==
    [ok |-> TRUE, items |-> list, total_count |-> total_count,
     incomplete_results |-> incomplete_results]

\* ParsePageError::ListQty
ListQty(n) == [ok |-> FALSE, error |-> "ListQty", qty |-> n]

\* The body is not JSON, or it is neither variant of RawPage
NotAPage == [ok |-> FALSE, error |-> "Data"]

\* map.into_values().filter_map(MapPageValue::into_list).collect()
RECURSIVE Lists(_)
Lists(map) ==
    IF map = <<>> THEN <<>>
    ELSE (IF into_list(Head(map).v).some THEN <<into_list(Head(map).v).val>>
          ELSE <<>>) \o Lists(Tail(map))

TOTAL_COUNT == <<"t", "o", "t", "a", "l", "_", "c", "o", "u", "n", "t">>

INCOMPLETE_RESULTS ==
    <<"i", "n", "c", "o", "m", "p", "l", "e", "t", "e",
    "_", "r", "e", "s", "u", "l", "t", "s">>

\* Mutant: the items of an array page come in reverse order
try_fromReversed(value) ==
    IF value.variant = "Array"
    THEN PageOf([i \in 1..Len(value.items) |->
                    value.items[Len(value.items) + 1 - i]], None, None)
    ELSE LET tc == get(value.map, TOTAL_COUNT)
             ir == get(value.map, INCOMPLETE_RESULTS)
             lists == Lists(value.map)
         IN  IF Len(lists) = 1
             THEN PageOf(lists[1],
                         IF tc.some THEN as_u64(tc.val) ELSE None,
                         IF ir.some THEN as_bool(ir.val) ELSE None)
             ELSE ListQty(Len(lists))

\* Mutant: with several lists the first one is taken
try_fromFirstList(value) ==
    IF value.variant = "Array" THEN PageOf(value.items, None, None)
    ELSE LET tc == get(value.map, TOTAL_COUNT)
             ir == get(value.map, INCOMPLETE_RESULTS)
             lists == Lists(value.map)
         IN  IF Len(lists) >= 1
             THEN PageOf(lists[1],
                         IF tc.some THEN as_u64(tc.val) ELSE None,
                         IF ir.some THEN as_bool(ir.val) ELSE None)
             ELSE ListQty(Len(lists))

\* impl TryFrom<RawPage<T>> for Page<T>
try_from(value) ==
    IF value.variant = "Array" THEN PageOf(value.items, None, None)
    ELSE LET tc == get(value.map, TOTAL_COUNT)
             ir == get(value.map, INCOMPLETE_RESULTS)
             lists == Lists(value.map)
         IN  IF Len(lists) = 1
             THEN PageOf(lists[1],
                         IF tc.some THEN as_u64(tc.val) ELSE None,
                         IF ir.some THEN as_bool(ir.val) ELSE None)
             ELSE ListQty(Len(lists))

\* read_json::<Page<T>>() of a body with the text s
read_page(T, s) ==
    LET v == from_str(s)
        raw == IF v.some THEN RawPageOf(T, v.val) ELSE None
    IN  IF raw.some THEN try_from(raw.val) ELSE NotAPage

\* The members of the documents
\* "total_count":17
TOTAL_COUNT_17 == <<"\"", "t", "o", "t", "a", "l", "_", "c", "o", "u", "n",
    "t", "\"", ":", "1", "7">>

\* "total_count":-1
TOTAL_COUNT_NEGATIVE == <<"\"", "t", "o", "t", "a", "l", "_", "c", "o", "u",
    "n", "t", "\"", ":", "-", "1">>

\* "total_count":1.5
TOTAL_COUNT_FRACTION == <<"\"", "t", "o", "t", "a", "l", "_", "c", "o", "u",
    "n", "t", "\"", ":", "1", ".", "5">>

\* "total_count":"17"
TOTAL_COUNT_STRING == <<"\"", "t", "o", "t", "a", "l", "_", "c", "o", "u",
    "n", "t", "\"", ":", "\"", "1", "7", "\"">>

\* "total_count":true
TOTAL_COUNT_TRUE == <<"\"", "t", "o", "t", "a", "l", "_", "c", "o", "u", "n",
    "t", "\"", ":", "t", "r", "u", "e">>

\* "total_count":[]
TOTAL_COUNT_EMPTY_ARRAY == <<"\"", "t", "o", "t", "a", "l", "_", "c", "o",
    "u", "n", "t", "\"", ":", "[", "]">>

\* "incomplete_results":true
INCOMPLETE_TRUE == <<"\"", "i", "n", "c", "o", "m", "p", "l", "e", "t", "e",
    "_", "r", "e", "s", "u", "l", "t", "s", "\"", ":", "t", "r", "u", "e">>

\* "incomplete_results":false
INCOMPLETE_FALSE == <<"\"", "i", "n", "c", "o", "m", "p", "l", "e", "t", "e",
    "_", "r", "e", "s", "u", "l", "t", "s", "\"", ":", "f", "a", "l", "s",
    "e">>

\* "incomplete_results":"yes"
INCOMPLETE_STRING == <<"\"", "i", "n", "c", "o", "m", "p", "l", "e", "t", "e",
    "_", "r", "e", "s", "u", "l", "t", "s", "\"", ":", "\"", "y", "e", "s",
    "\"">>

\* "widgets":[{"name":"a","color":"b","power":1},{"name":"c","color":"d","power":2}]
WIDGETS == <<"\"", "w", "i", "d", "g", "e", "t", "s", "\"", ":", "[", "{",
    "\"", "n", "a", "m", "e", "\"", ":", "\"", "a", "\"", ",", "\"", "c", "o",
    "l", "o", "r", "\"", ":", "\"", "b", "\"", ",", "\"", "p", "o", "w", "e",
    "r", "\"", ":", "1", "}", ",", "{", "\"", "n", "a", "m", "e", "\"", ":",
    "\"", "c", "\"", ",", "\"", "c", "o", "l", "o", "r", "\"", ":", "\"", "d",
    "\"", ",", "\"", "p", "o", "w", "e", "r", "\"", ":", "2", "}", "]">>

\* "widgets":[]
WIDGETS_EMPTY == <<"\"", "w", "i", "d", "g", "e", "t", "s", "\"", ":", "[",
    "]">>

\* "widgets":[{"name":"a","color":"b","power":1},"x"]
WIDGETS_MIXED == <<"\"", "w", "i", "d", "g", "e", "t", "s", "\"", ":", "[",
    "{", "\"", "n", "a", "m", "e", "\"", ":", "\"", "a", "\"", ",", "\"", "c",
    "o", "l", "o", "r", "\"", ":", "\"", "b", "\"", ",", "\"", "p", "o", "w",
    "e", "r", "\"", ":", "1", "}", ",", "\"", "x", "\"", "]">>

\* "mode":"ponens"
MODE == <<"\"", "m", "o", "d", "e", "\"", ":", "\"", "p", "o", "n", "e", "n",
    "s", "\"">>

\* "modes":["ponens","tollens"]
MODES == <<"\"", "m", "o", "d", "e", "s", "\"", ":", "[", "\"", "p", "o", "n",
    "e", "n", "s", "\"", ",", "\"", "t", "o", "l", "l", "e", "n", "s", "\"",
    "]">>

\* "more_widgets":[{"name":"e","color":"f","power":3}]
MORE_WIDGETS == <<"\"", "m", "o", "r", "e", "_", "w", "i", "d", "g", "e", "t",
    "s", "\"", ":", "[", "{", "\"", "n", "a", "m", "e", "\"", ":", "\"", "e",
    "\"", ",", "\"", "c", "o", "l", "o", "r", "\"", ":", "\"", "f", "\"", ",",
    "\"", "p", "o", "w", "e", "r", "\"", ":", "3", "}", "]">>

\* "meta":{"n":[1]}
META == <<"\"", "m", "e", "t", "a", "\"", ":", "{", "\"", "n", "\"", ":", "[",
    "1", "]", "}">>

\* "numbers":[1,2]
NUMBERS == <<"\"", "n", "u", "m", "b", "e", "r", "s", "\"", ":", "[", "1",
    ",", "2", "]">>

\* The choices for each member of an object; <<>> is no member
TotalCountMembers ==
    {<<>>, TOTAL_COUNT_17, TOTAL_COUNT_NEGATIVE, TOTAL_COUNT_FRACTION,
     TOTAL_COUNT_STRING, TOTAL_COUNT_TRUE, TOTAL_COUNT_EMPTY_ARRAY}

IncompleteMembers == {<<>>, INCOMPLETE_TRUE, INCOMPLETE_FALSE, INCOMPLETE_STRING}

WidgetsMembers == {<<>>, WIDGETS, WIDGETS_EMPTY, WIDGETS_MIXED}

ExtraMembers == {<<>>, MODE, MODES, MORE_WIDGETS, META, NUMBERS}

\* The members that are there, with commas between them
RECURSIVE JoinMembers(_)
JoinMembers(ms) ==
    IF ms = <<>> THEN <<>>
    ELSE IF Head(ms) = <<>> THEN JoinMembers(Tail(ms))
    ELSE IF JoinMembers(Tail(ms)) = <<>> THEN Head(ms)
    ELSE Head(ms) \o <<",">> \o JoinMembers(Tail(ms))

ObjectText(ms) == <<"{">> \o JoinMembers(ms) \o <<"}">>

\* Documents that are not objects
\* [{"name":"a","color":"b","power":1},{"name":"c","color":"d","power":2}]
DOC_WIDGETS == <<"[", "{", "\"", "n", "a", "m", "e", "\"", ":", "\"", "a",
    "\"", ",", "\"", "c", "o", "l", "o", "r", "\"", ":", "\"", "b", "\"", ",",
    "\"", "p", "o", "w", "e", "r", "\"", ":", "1", "}", ",", "{", "\"", "n",
    "a", "m", "e", "\"", ":", "\"", "c", "\"", ",", "\"", "c", "o", "l", "o",
    "r", "\"", ":", "\"", "d", "\"", ",", "\"", "p", "o", "w", "e", "r", "\"",
    ":", "2", "}", "]">>

\* []
DOC_EMPTY == <<"[", "]">>

\* ["ponens","tollens"]
DOC_STRINGS == <<"[", "\"", "p", "o", "n", "e", "n", "s", "\"", ",", "\"",
    "t", "o", "l", "l", "e", "n", "s", "\"", "]">>

\* [1,2]
DOC_NUMBERS == <<"[", "1", ",", "2", "]">>

\* [{"name":"a","color":"b","power":1},"x"]
DOC_MIXED == <<"[", "{", "\"", "n", "a", "m", "e", "\"", ":", "\"", "a", "\"",
    ",", "\"", "c", "o", "l", "o", "r", "\"", ":", "\"", "b", "\"", ",", "\"",
    "p", "o", "w", "e", "r", "\"", ":", "1", "}", ",", "\"", "x", "\"", "]">>

\* 17
DOC_NUMBER == <<"1", "7">>

\* null
DOC_NULL == <<"n", "u", "l", "l">>

\* [{"name":"a","color":"b","power":1}
DOC_OPEN == <<"[", "{", "\"", "n", "a", "m", "e", "\"", ":", "\"", "a", "\"",
    ",", "\"", "c", "o", "l", "o", "r", "\"", ":", "\"", "b", "\"", ",", "\"",
    "p", "o", "w", "e", "r", "\"", ":", "1", "}">>

\* The bodies of page responses
Documents ==
    {ObjectText(<<tc, ir, w, x>>) :
        tc \in TotalCountMembers, ir \in IncompleteMembers,
        w \in WidgetsMembers, x \in ExtraMembers}
    \cup {DOC_WIDGETS, DOC_EMPTY, DOC_STRINGS, DOC_NUMBERS,
          DOC_MIXED, DOC_NUMBER, DOC_NULL, DOC_OPEN}

\* The body of a page response has been read
InitPage ==
    /\ NewClient
    /\ NoReadableResponse
    /\ item_type \in ItemTypes
    /\ doc \in Documents
    /\ page = None
    /\ NoIterator
    /\ NoJson

\* resp.body_mut().read_json::<Page<T>>()
Decode ==
    /\ page = None
    /\ page' = Some(read_page(item_type, doc))
    /\ UNCHANGED <<clientVars, bodyVars, iterVars, jsonVars, item_type, doc>>

NextPage == Decode

SpecPage == InitPage /\ [][NextPage]_vars

\* ------------------------------------------------------------ pagination

\* The URLs of the pages
URL_1 == <<"h", "t", "t", "p", "s", ":", "/", "/", "h", "/", "1">>

URL_2 == <<"h", "t", "t", "p", "s", ":", "/", "/", "h", "/", "2">>

URL_3 == <<"h", "t", "t", "p", "s", ":", "/", "/", "h", "/", "3">>

PageUrls == {URL_1, URL_2, URL_3}

\* Values of the Link header
\* <https://h/1>; rel="next"
LINK_NEXT_1 == <<"<", "h", "t", "t", "p", "s", ":", "/", "/", "h", "/", "1",
    ">", ";", " ", "r", "e", "l", "=", "\"", "n", "e", "x", "t", "\"">>

\* <https://h/2>; rel="next"
LINK_NEXT_2 == <<"<", "h", "t", "t", "p", "s", ":", "/", "/", "h", "/", "2",
    ">", ";", " ", "r", "e", "l", "=", "\"", "n", "e", "x", "t", "\"">>

\* <https://h/1>; rel="prev", <https://h/3>; rel="next"
LINK_PREV_NEXT_3 == <<"<", "h", "t", "t", "p", "s", ":", "/", "/", "h", "/",
    "1", ">", ";", " ", "r", "e", "l", "=", "\"", "p", "r", "e", "v", "\"",
    ",", " ", "<", "h", "t", "t", "p", "s", ":", "/", "/", "h", "/", "3", ">",
    ";", " ", "r", "e", "l", "=", "\"", "n", "e", "x", "t", "\"">>

\* <https://h/1>; rel="last"
LINK_LAST_1 == <<"<", "h", "t", "t", "p", "s", ":", "/", "/", "h", "/", "1",
    ">", ";", " ", "r", "e", "l", "=", "\"", "l", "a", "s", "t", "\"">>

REL == <<";", " ", "r", "e", "l", "=", "\"">>

NEXT == <<"n", "e", "x", "t">>

\* The links of a Link header from position i on, as records of the URI
\* between < and > and the value of rel; acc holds the ones read.  The
\* headers read are lists, with commas, of <URI>; rel="value".
RECURSIVE ParseLinks(_, _, _)
ParseLinks(s, i, acc) ==
    LET i0 == SkipWhitespace(s, i)
        close == IF CharAt(s, i0) = "<" THEN IndexFrom(s, ">", i0 + 1) ELSE 0
        rel == IF close > 0 /\ MatchAt(s, close + 1, REL)
               THEN close + 1 + Len(REL) ELSE 0
        quote == IF rel > 0 THEN IndexFrom(s, "\"", rel) ELSE 0
        link == [uri |-> SubSeq(s, i0 + 1, close - 1),
                 rel |-> SubSeq(s, rel, quote - 1)]
    IN  IF quote = 0 THEN None
        ELSE IF quote = Len(s) THEN Some(Append(acc, link))
        ELSE IF s[quote + 1] = "," THEN ParseLinks(s, quote + 2, Append(acc, link))
        ELSE None

\* Mutant: the last link, whatever its rel
LinkWithRelAny(links, rel) ==
    IF links = <<>> THEN None ELSE Some(links[Len(links)].uri)

\* The URI of the last link with the given rel
RECURSIVE LinkWithRel(_, _)
LinkWithRel(links, rel) ==
    IF links = <<>> THEN None
    ELSE IF links[Len(links)].rel = rel THEN Some(links[Len(links)].uri)
    ELSE LinkWithRel(SubSeq(links, 1, Len(links) - 1), rel)

\* As get_next_link, but taking the first link whatever its rel
get_next_linkFirstLink(link) ==
    IF ~link.some THEN None
    ELSE LET links == ParseLinks(link.val, 1, <<>>)
         IN  IF links.some /\ links.val # <<>>
             THEN Some(links.val[1].uri) ELSE None

\* get_next_link; link is the value of the Link header, None when it is
\* not set
get_next_link(link) ==
    IF ~link.some THEN None
    ELSE LET links == ParseLinks(link.val, 1, <<>>)
         IN  IF links.some THEN LinkWithRel(links.val, NEXT) ELSE None

\* A page with one item, in an object
DOC_OBJECT == <<"{", "\"", "t", "o", "t", "a", "l", "_", "c", "o", "u", "n",
    "t", "\"", ":", "1", "7", ",", "\"", "m", "o", "r", "e", "_", "w", "i",
    "d", "g", "e", "t", "s", "\"", ":", "[", "{", "\"", "n", "a", "m", "e",
    "\"", ":", "\"", "e", "\"", ",", "\"", "c", "o", "l", "o", "r", "\"", ":",
    "\"", "f", "\"", ",", "\"", "p", "o", "w", "e", "r", "\"", ":", "3", "}",
    "]", "}">>

\* The response of the server to the request of a page: its body and its
\* Link header
PageResponse(body, link) == [doc |-> body, link |-> link]

PageResponses ==
    {PageResponse(DOC_WIDGETS, Some(LINK_NEXT_2)),
     PageResponse(DOC_EMPTY, Some(LINK_PREV_NEXT_3)),
     PageResponse(DOC_OBJECT, None),
     PageResponse(DOC_WIDGETS, Some(LINK_LAST_1)),
     PageResponse(DOC_NUMBER, Some(LINK_PREV_NEXT_3)),
     PageResponse(DOC_OBJECT, Some(LINK_NEXT_1)),
     PageResponse(DOC_EMPTY, None)}

\* The most pages one iterator requests
MaxFetches == 4

\* What a transport call for the page at URL u ends in: a transport error,
\* a 404, or the page
PageOutcomes(u) ==
    {TransportError,
     Response(404, None, Some(<<>>), None, None),
     Response(200, None, Some(server[u].doc), None, None)}

\* The values next returns inside Some
Ok(item) == [ok |-> TRUE, item |-> item]

Err(error) == [ok |-> FALSE, error |-> error]

\* RequestError::Deserialize
DeserializeError(m, u) == [kind |-> "Deserialize", method |-> m, url |-> u]

\* PaginationIter::new, for the item type Widget
InitPaginate ==
    /\ NewClientFor("GET", URL_1)
    /\ NoReadableResponse
    /\ NoPage
    /\ server \in [PageUrls -> PageResponses]
    /\ next_url = Some(URL_1)
    /\ items = None
    /\ it_pc = "ready"
    /\ yielded = <<>>
    /\ fetched = <<>>
    /\ returned = "nothing"
    /\ NoJson

\* self.items.as_mut().and_then(Iterator::next) is None
BufferEmpty == IF items.some THEN items.val = <<>> ELSE TRUE

\* The caller calls next
CallNext ==
    /\ it_pc = "ready"
    /\ it_pc' = "loop"
    /\ UNCHANGED <<clientVars, bodyVars, pageVars, jsonVars, server, next_url, items,
                   yielded, fetched, returned>>

\* next, lines 33-34: the buffer has an item, which is returned
ReturnItem ==
    /\ it_pc = "loop"
    /\ pc = "idle"
    /\ ~BufferEmpty
    /\ yielded' = Append(yielded, Ok(Head(items.val)))
    /\ items' = Some(Tail(items.val))
    /\ returned' = "item"
    /\ it_pc' = "ready"
    /\ UNCHANGED <<clientVars, bodyVars, pageVars, jsonVars, server, next_url, fetched>>

\* Mutant: the next URL is read but left in place
PageRequestKeepsUrl ==
    /\ it_pc = "loop"
    /\ BufferEmpty
    /\ next_url.some
    /\ Len(fetched) < MaxFetches
    /\ Call("GET", next_url.val)
    /\ items' = None
    /\ fetched' = Append(fetched, next_url.val)
    /\ UNCHANGED <<bodyVars, pageVars, jsonVars, server, it_pc, yielded, returned,
                   next_url>>

\* next, lines 36-39: the buffer is dropped, the next URL is taken and
\* requested
PageRequest ==
    /\ it_pc = "loop"
    /\ BufferEmpty
    /\ next_url.some
    /\ Len(fetched) < MaxFetches
    /\ Call("GET", next_url.val)
    /\ items' = None
    /\ next_url' = None
    /\ fetched' = Append(fetched, next_url.val)
    /\ UNCHANGED <<bodyVars, pageVars, jsonVars, server, it_pc, yielded, returned>>

\* One transport call for the page
PageSend ==
    /\ it_pc = "loop"
    /\ pc = "send"
    /\ \E o \in PageOutcomes(url) : Send(o, 0)

\* Mutant: the next URL is set from the Link header before the body is
\* decoded
PageReturnKeepsLink ==
    /\ it_pc = "loop"
    /\ Returns
    /\ LET decoded == IF resp.val.body.some
                      THEN read_page(item_type, resp.val.body.val)
                      ELSE NotAPage
       IN  IF decision.val.kind # "Success"
           THEN /\ yielded' = Append(yielded, Err(decision.val))
                /\ returned' = "error"
                /\ it_pc' = "ready"
                /\ UNCHANGED <<doc, page, items, next_url>>
           ELSE /\ doc' = IF resp.val.body.some THEN resp.val.body.val ELSE <<>>
                /\ page' = Some(decoded)
                /\ next_url' = get_next_link(server[url].link)
                /\ IF decoded.ok
                   THEN /\ items' = Some(decoded.items)
                        /\ UNCHANGED <<yielded, returned, it_pc>>
                   ELSE /\ yielded' = Append(yielded,
                                              Err(DeserializeError("GET", url)))
                        /\ returned' = "error"
                        /\ it_pc' = "ready"
                        /\ UNCHANGED items
    /\ UNCHANGED <<bodyVars, jsonVars, item_type, server, fetched>>

\* next, lines 39-53: Client::request returns; an error is returned; a
\* response is decoded, and either the error of that is returned or the
\* buffer is filled and the next URL set from the Link header
PageReturn ==
    /\ it_pc = "loop"
    /\ Returns
    /\ LET decoded == IF resp.val.body.some
                      THEN read_page(item_type, resp.val.body.val)
                      ELSE NotAPage
       IN  IF decision.val.kind # "Success"
           THEN /\ yielded' = Append(yielded, Err(decision.val))
                /\ returned' = "error"
                /\ it_pc' = "ready"
                /\ UNCHANGED <<doc, page, items, next_url>>
           ELSE /\ doc' = IF resp.val.body.some THEN resp.val.body.val ELSE <<>>
                /\ page' = Some(decoded)
                /\ IF decoded.ok
                   THEN /\ items' = Some(decoded.items)
                        /\ next_url' = get_next_link(server[url].link)
                        /\ UNCHANGED <<yielded, returned, it_pc>>
                   ELSE /\ yielded' = Append(yielded,
                                              Err(DeserializeError("GET", url)))
                        /\ returned' = "error"
                        /\ it_pc' = "ready"
                        /\ UNCHANGED <<items, next_url>>
    /\ UNCHANGED <<bodyVars, jsonVars, item_type, server, fetched>>

\* Mutant: at the end the iterator goes back to the first page
ReturnNoneRestarts ==
    /\ it_pc = "loop"
    /\ pc = "idle"
    /\ BufferEmpty
    /\ ~next_url.some
    /\ items' = None
    /\ next_url' = Some(URL_1)
    /\ returned' = "end"
    /\ it_pc' = "ready"
    /\ UNCHANGED <<clientVars, bodyVars, pageVars, jsonVars, server, yielded, fetched>>

\* next, lines 36 and 55: nothing is buffered and there is no next URL
ReturnNone ==
    /\ it_pc = "loop"
    /\ pc = "idle"
    /\ BufferEmpty
    /\ ~next_url.some
    /\ items' = None
    /\ returned' = "end"
    /\ it_pc' = "ready"
    /\ UNCHANGED <<clientVars, bodyVars, pageVars, jsonVars, server, next_url, yielded,
                   fetched>>

\* A PaginationIter on a new client is called until it ends, and after
NextPaginate ==
    \/ CallNext
    \/ ReturnItem
    \/ PageRequest
    \/ PageSend
    \/ \E wraps \in BOOLEAN : Handle(wraps)
    \/ Sleep
    \/ PageReturn
    \/ ReturnNone

SpecPaginate == InitPaginate /\ [][NextPaginate]_vars

\* The steps of next other than PageReturn
PaginateSteps ==
    \/ CallNext
    \/ ReturnItem
    \/ PageRequest
    \/ PageSend
    \/ \E wraps \in BOOLEAN : Handle(wraps)
    \/ Sleep
    \/ ReturnNone

\* PageReturn can be taken
AtPageReturn == it_pc = "loop" /\ pc = "done"

\* The caller keeps calling next, every transport call returns, and the
\* thread that runs next is not stopped.  A PageReturn step leaves
\* AtPageReturn and no other step does, so that the last conjunct is
\* WF_vars(PageReturn).
SpecPaginateFair ==
    /\ SpecPaginate
    /\ WF_vars(PaginateSteps)
    /\ []<>~AtPageReturn

\* ---------------------------------------------------------- request_json

\* Bodies that are one value
\* {"name":"a","color":"b","power":1}
DOC_WIDGET == <<"{", "\"", "n", "a", "m", "e", "\"", ":", "\"", "a", "\"",
    ",", "\"", "c", "o", "l", "o", "r", "\"", ":", "\"", "b", "\"", ",", "\"",
    "p", "o", "w", "e", "r", "\"", ":", "1", "}">>

\* "ponens"
DOC_STRING == <<"\"", "p", "o", "n", "e", "n", "s", "\"">>

\* The bodies the server answers a request_json with
JsonDocuments ==
    {DOC_WIDGET, DOC_STRING, DOC_NUMBER, DOC_WIDGETS, DOC_EMPTY, DOC_OPEN}

\* The methods request_json is called with
JsonMethods == {"GET", "POST"}

\* request_json is running, to return a U
Pending(U) == [pending |-> TRUE, U |-> U]

JsonPending == result # None /\ result.pending

\* The Ok and Err of the Result that request_json returns
JsonOk(val) == [pending |-> FALSE, ok |-> TRUE, val |-> val]

JsonErr(error) == [pending |-> FALSE, ok |-> FALSE, error |-> error]

\* r.body_mut().read_json::<U>(): the value, None when the body is not the
\* JSON of a U
read_json(U, s) ==
    LET v == from_str(s)
    IN  IF v.some THEN DeserializeItem(U, v.val) ELSE None

\* A new client, a server with one URL, a PaginationIter for that URL
InitJson ==
    /\ NewClientFor("GET", URL_1)
    /\ NoReadableResponse
    /\ item_type \in ItemTypes
    /\ doc = <<>>
    /\ page = None
    /\ server \in [{URL_1} -> {PageResponse(d, None) : d \in JsonDocuments}]
    /\ next_url = Some(URL_1)
    /\ items = None
    /\ it_pc = "ready"
    /\ yielded = <<>>
    /\ fetched = <<>>
    /\ returned = "nothing"
    /\ NoJson

\* request_json, lines 209-211: mkurl gave URL_1; Client::request is
\* called.  request_json is called once in a run.
JsonRequest(m) ==
    /\ result = None
    /\ it_pc = "ready"
    /\ Call(m, URL_1)
    /\ result' = Pending(item_type)
    /\ UNCHANGED <<bodyVars, pageVars, iterVars>>

\* One transport call for request_json
JsonSend ==
    /\ JsonPending
    /\ pc = "send"
    /\ \E o \in PageOutcomes(url) : Send(o, 0)

\* Mutant: the Deserialize error names GET, as the one of a page does
JsonReturnGet ==
    /\ JsonPending
    /\ Returns
    /\ result' =
          IF decision.val.kind # "Success" THEN JsonErr(decision.val)
          ELSE LET val == IF resp.val.body.some
                          THEN read_json(result.U, resp.val.body.val)
                          ELSE None
               IN  IF val.some THEN JsonOk(val.val)
                   ELSE JsonErr(DeserializeError("GET", url))
    /\ UNCHANGED <<bodyVars, pageVars, iterVars>>

\* request_json, lines 211-219: Client::request returns; its error is
\* returned, or the body is read as a U
JsonReturn ==
    /\ JsonPending
    /\ Returns
    /\ result' =
          IF decision.val.kind # "Success" THEN JsonErr(decision.val)
          ELSE LET val == IF resp.val.body.some
                          THEN read_json(result.U, resp.val.body.val)
                          ELSE None
               IN  IF val.some THEN JsonOk(val.val)
                   ELSE JsonErr(DeserializeError(method, url))
    /\ UNCHANGED <<bodyVars, pageVars, iterVars>>

\* A call of request_json before, between or after the calls of the next
\* of a PaginationIter
NextJson ==
    \/ \E m \in JsonMethods : JsonRequest(m)
    \/ JsonSend
    \/ JsonReturn
    \/ \E wraps \in BOOLEAN : Handle(wraps)
    \/ Sleep
    \/ ~JsonPending /\ CallNext
    \/ ReturnItem
    \/ PageRequest
    \/ PageSend
    \/ PageReturn
    \/ ReturnNone

SpecJson == InitJson /\ [][NextJson]_vars

\* ------------------------------------------------------------- two threads
\* A PaginationIter in thread 1 and, in thread 2, one logical request made
\* with a clone of the client.  The Retrier is a local variable of
\* Client::request (lib.rs, line 160), last_mutation a field of the clone.

\* The variables of the thread that is running
Locals ==
    [pc |-> pc, last_mutation |-> last_mutation, method |-> method,
     url |-> url, retrier |-> retrier, resp |-> resp, decision |-> decision,
     sent |-> sent, limited |-> limited, slow |-> slow, backoff |-> backoff,
     slept |-> slept, prev_start |-> prev_start, gap |-> gap,
     waited |-> waited]

\* A thread that has not called Client::request, with a clone of a new
\* client
NewThread(m, u) ==
    [pc |-> "idle", last_mutation |-> None, method |-> m, url |-> u,
     retrier |-> None, resp |-> None, decision |-> None, sent |-> 0,
     limited |-> 0, slow |-> 0, backoff |-> None, slept |-> 0,
     prev_start |-> None, gap |-> None, waited |-> 0]

\* The pages of the server: two pages, and the resource thread 2 posts to
ThreadsServer ==
    (URL_1 :> PageResponse(DOC_WIDGETS, Some(LINK_NEXT_2)))
    @@ (URL_2 :> PageResponse(DOC_OBJECT, None))
    @@ (URL_3 :> PageResponse(DOC_EMPTY, None))

InitThreads ==
    /\ pc = "idle"
    /\ now = 0
    /\ last_mutation = None
    /\ method = "GET"
    /\ url = URL_1
    /\ retrier = None
    /\ resp = None
    /\ decision = None
    /\ sent = 0
    /\ limited = 0
    /\ slow = 0
    /\ backoff = None
    /\ slept = 0
    /\ prev_start = None
    /\ gap = None
    /\ waited = 0
    /\ tid = 1
    /\ parked = Some(NewThread("POST", URL_3))
    /\ NoReadableResponse
    /\ NoPage
    /\ server = ThreadsServer
    /\ next_url = Some(URL_1)
    /\ items = None
    /\ it_pc = "ready"
    /\ yielded = <<>>
    /\ fetched = <<>>
    /\ returned = "nothing"
    /\ NoJson

\* Mutant: the Retrier is kept in one place for both threads
SwitchSharedRetrier ==
    /\ parked.some
    /\ tid' = 3 - tid
    /\ parked' = Some(Locals)
    /\ pc' = parked.val.pc
    /\ last_mutation' = parked.val.last_mutation
    /\ method' = parked.val.method
    /\ url' = parked.val.url
    /\ retrier' = retrier
    /\ resp' = parked.val.resp
    /\ decision' = parked.val.decision
    /\ sent' = parked.val.sent
    /\ limited' = parked.val.limited
    /\ slow' = parked.val.slow
    /\ backoff' = parked.val.backoff
    /\ slept' = parked.val.slept
    /\ prev_start' = parked.val.prev_start
    /\ gap' = parked.val.gap
    /\ waited' = parked.val.waited
    /\ UNCHANGED <<now, others>>

\* Mutant: the timestamp is kept in one place for both
SwitchSharedTimestamp ==
    /\ parked.some
    /\ tid' = 3 - tid
    /\ parked' = Some(Locals)
    /\ pc' = parked.val.pc
    /\ last_mutation' = last_mutation
    /\ method' = parked.val.method
    /\ url' = parked.val.url
    /\ retrier' = parked.val.retrier
    /\ resp' = parked.val.resp
    /\ decision' = parked.val.decision
    /\ sent' = parked.val.sent
    /\ limited' = parked.val.limited
    /\ slow' = parked.val.slow
    /\ backoff' = parked.val.backoff
    /\ slept' = parked.val.slept
    /\ prev_start' = parked.val.prev_start
    /\ gap' = parked.val.gap
    /\ waited' = parked.val.waited
    /\ UNCHANGED <<now, others>>

\* The other thread runs
Switch ==
    /\ parked.some
    /\ tid' = 3 - tid
    /\ parked' = Some(Locals)
    /\ pc' = parked.val.pc
    /\ last_mutation' = parked.val.last_mutation
    /\ method' = parked.val.method
    /\ url' = parked.val.url
    /\ retrier' = parked.val.retrier
    /\ resp' = parked.val.resp
    /\ decision' = parked.val.decision
    /\ sent' = parked.val.sent
    /\ limited' = parked.val.limited
    /\ slow' = parked.val.slow
    /\ backoff' = parked.val.backoff
    /\ slept' = parked.val.slept
    /\ prev_start' = parked.val.prev_start
    /\ gap' = parked.val.gap
    /\ waited' = parked.val.waited
    /\ UNCHANGED <<now, others>>

\* Thread 2 calls Client::request, once
ThreadRequest ==
    /\ tid = 2
    /\ Request(method, url)

\* The most transport errors in one logical request of these runs
MaxThreadErrors == 2

\* One transport call of the thread that is running
ThreadSend ==
    /\ pc = "send"
    /\ \E o \in PageOutcomes(url) :
          /\ ~o.ok => sent < MaxThreadErrors
          /\ Send(o, 0)

NextThreads ==
    \/ tid = 1 /\ CallNext
    \/ tid = 1 /\ ReturnItem
    \/ tid = 1 /\ PageRequest
    \/ tid = 1 /\ PageReturn
    \/ tid = 1 /\ ReturnNone
    \/ ThreadRequest
    \/ ThreadSend
    \/ \E wraps \in BOOLEAN : Handle(wraps)
    \/ Sleep
    \/ Switch

SpecThreads == InitThreads /\ [][NextThreads]_vars

\* ------------------------------------------------------ a cloned client
\* Client derives Clone (lib.rs, line 82): the clone's last_mutation is a
\* Cell of its own holding a copy of the Option<Instant>.  One thread uses
\* the two clients for one logical request after another: the variables of
\* Client::request are the ones of the client in use, parked holds the
\* other client, tid says which is in use.

CloneRequests == {<<"GET", "/a">>, <<"POST", "/b">>, <<"DELETE", "/a">>}

CloneOutcomes ==
    {TransportError,
     Response(200, None, Some(<<>>), None, None),
     Response(404, None, Some(<<>>), None, None)}

\* The most transport errors in one logical request of these runs
MaxCloneErrors == 1

\* One transport call of the client in use
CloneSend ==
    /\ pc = "send"
    /\ \E o \in CloneOutcomes :
          /\ ~o.ok => sent < MaxCloneErrors
          /\ Send(o, 0)

\* client.clone(), once: from now on there is a second client, a clone of
\* the first.  The history variable prev_start is copied along with the
\* timestamp it records.
CloneClient ==
    /\ pc = "idle"
    /\ ~parked.some
    /\ parked' = Some([NewThread(method, url) EXCEPT
                          !.last_mutation = last_mutation,
                          !.prev_start = prev_start])
    /\ UNCHANGED <<pc, now, last_mutation, method, url, retrier, resp, decision,
                   sent, limited, slow, backoff, slept, prev_start, gap, waited,
                   tid>>
    /\ UNCHANGED others

\* The next logical request is made with the other client
UseOther ==
    /\ pc = "idle"
    /\ Switch

NextClone ==
    \/ \E rq \in CloneRequests : Request(rq[1], rq[2])
    \/ CloneSend
    \/ \E wraps \in BOOLEAN : Handle(wraps)
    \/ Sleep
    \/ Finish
    \/ Idle
    \/ CloneClient
    \/ UseOther

SpecClone == Init /\ [][NextClone]_vars

\* ------------------------------------------------------------ properties
\* In the states right after Retrier::handle (pc is sleep, done or
\* panicked) resp is the outcome it handled, decision what it returned,
\* retrier.val.attempts the incremented attempt count, and now the Instant
\* at which it ran.

Handled == pc \in {"sleep", "done", "panicked"}

Attempts == retrier.val.attempts

TimeLeft == Max(retrier.val.stop_time - now, 0)

\* The errors of the logical request in progress
TheStatusError(status) ==
    [kind |-> "Status", method |-> method, url |-> url, status |-> status]

TheSendError == [kind |-> "Send", method |-> method, url |-> url]

\* The number a header of decimal digits stands for
HeaderSeconds ==
    (<<"0">> :> 0) @@ (<<"5">> :> 5) @@ (<<"4", "0", "0">> :> 400)
    @@ (<<"1", "3", "0">> :> 130) @@ (<<"5", "0", "0">> :> 500)

RateLimitBodies == {RateLimitBody, EmbeddedRateLimitBody}

RECURSIVE Power(_, _)
Power(b, k) == IF k = 0 THEN 1 ELSE b * Power(b, k - 1)

\* C1: the attempt count of a Retrier never exceeds 11, at most 11
\* transport calls are made for a logical request, and the 11th outcome is
\* never answered with Retry.
C1_AtMostElevenAttempts ==
    /\ retrier.some => Attempts <= 11
    /\ sent <= 11
    /\ (Handled /\ Attempts = 11) => decision.val.kind # "Retry"

C1_Witness ==
    /\ pc = "done"
    /\ sent = 11
    /\ Attempts = 11
    /\ TimeLeft > 0

\* C2: when handle finalizes because the attempts or the 300 s are used
\* up, a last response with a 4xx or 5xx status gives a StatusError with the
\* request's method and URL and that response's status, and a last
\* transport error gives a SendError with the request's method and URL.
C2_ExhaustedErrorIsTheLastOutcome ==
    (Handled /\ (Attempts > 10 \/ TimeLeft = 0)) =>
        /\ (resp.val.ok /\ resp.val.status \in 400..599) =>
               decision.val = TheStatusError(resp.val.status)
        /\ ~resp.val.ok => decision.val = TheSendError

C2_Witness ==
    /\ Handled
    /\ Attempts = 3
    /\ TimeLeft = 0
    /\ ~resp.val.ok
    /\ decision.val = TheSendError
    /\ method = "DELETE"

\* C3: every transport call with a mutating method starts at least 1 s
\* after the start of the client's previous mutating transport call.
C3_EveryMutatingAttemptSpaced ==
    gap.some => gap.val >= Secs(1)

\* C3, amended: the first transport call of every mutating logical request
\* starts at least 1 s after the start of the client's previous mutating
\* transport call.
C3_FirstMutatingAttemptSpaced ==
    (gap.some /\ sent = 1) => gap.val >= Secs(1)

C3_Witness ==
    /\ pc = "handle"
    /\ sent = 1
    /\ slept > 0
    /\ gap = Some(Secs(1))

\* C4: a 403 without Retry-After whose body is unreadable, empty or without
\* "rate limit" ends the logical request with a StatusError, at every
\* attempt count.
C4_PlainForbiddenFails ==
    (/\ Handled
     /\ resp.val.ok
     /\ resp.val.status = 403
     /\ ~resp.val.retry_after.some
     /\ resp.val.body \in OtherBodies) =>
        /\ decision.val = TheStatusError(403)
        /\ pc = "done"

C4_Witness ==
    /\ Handled
    /\ resp.val.ok
    /\ resp.val.status = 403
    /\ ~resp.val.retry_after.some
    /\ resp.val.body = Some(<<"R", "a", "t", "e", " ", "l", "i", "m", "i", "t">>)
    /\ Attempts = 2
    /\ TimeLeft > Secs(6)
    /\ decision.val.kind = "Status"

\* C5: a response with a 4xx status other than 403 is answered with a
\* StatusError whatever the attempt count and the time left; no sleep
\* follows.
C5_ClientErrorFails ==
    (/\ Handled
     /\ resp.val.ok
     /\ resp.val.status \in 400..499
     /\ resp.val.status # 403) =>
        /\ decision.val = TheStatusError(resp.val.status)
        /\ pc = "done"

C5_Witness ==
    /\ Handled
    /\ resp.val.ok
    /\ resp.val.status = 404
    /\ resp.val.retry_after.some
    /\ Attempts = 1
    /\ TimeLeft > Secs(6)
    /\ decision.val = TheStatusError(404)

\* C6: a 403 with a Retry-After of N seconds is answered with Retry(N + 1
\* seconds) when N + 1 seconds are not more than the time left and the
\* attempts are not used up, whatever the body.
C6_RetryAfterPlusOne ==
    (/\ Handled
     /\ resp.val.ok
     /\ resp.val.status = 403
     /\ resp.val.retry_after.some
     /\ resp.val.retry_after.val \in {<<"0">>, <<"5">>, <<"4", "0", "0">>}
     /\ Attempts <= 10
     /\ Secs(HeaderSeconds[resp.val.retry_after.val] + 1) <= TimeLeft) =>
        decision.val = Retry(Secs(HeaderSeconds[resp.val.retry_after.val] + 1))

C6_Witness ==
    /\ Handled
    /\ resp.val.ok
    /\ resp.val.status = 403
    /\ resp.val.retry_after = Some(<<"5">>)
    /\ resp.val.body = None
    /\ TimeLeft = Secs(6)
    /\ decision.val = Retry(Secs(6))

\* The wait a 403 asks for is more than the time left: Retry-After + 1 s, or
\* for a primary rate limit the time until X-RateLimit-Reset + 1 s.
C7_WaitExceedsTimeLeft ==
    /\ resp.val.ok
    /\ resp.val.status = 403
    /\ \/ /\ resp.val.retry_after.some
          /\ \/ resp.val.retry_after.val = U64_MAX_STR
             \/ /\ resp.val.retry_after.val \in {<<"0">>, <<"5">>, <<"4", "0", "0">>}
                /\ Secs(HeaderSeconds[resp.val.retry_after.val] + 1) > TimeLeft
       \/ /\ ~resp.val.retry_after.some
          /\ resp.val.body \in RateLimitBodies
          /\ resp.val.remaining = Some(<<"0">>)
          /\ resp.val.reset.some
          /\ \/ resp.val.reset.val = U64_MAX_STR
             \/ /\ resp.val.reset.val \in {<<"0">>, <<"1", "3", "0">>, <<"5", "0", "0">>}
                /\ Max(Secs(HeaderSeconds[resp.val.reset.val]) - SystemNow(now), 0)
                     + Secs(1) > TimeLeft

\* C7: when the wait a 403 rate-limit response asks for is more than the
\* time left until the deadline, handle returns a StatusError for that
\* response and no Retry.
C7_FailsWhenWaitExceedsTimeLeft ==
    (Handled /\ C7_WaitExceedsTimeLeft) => decision.val = TheStatusError(403)

\* C8: a 403 without Retry-After, with "rate limit" in the body,
\* X-RateLimit-Remaining "0" and an integer X-RateLimit-Reset is answered
\* with Retry(time until the reset, 0 if it is past, plus 1 s) when that
\* delay fits what is left of the attempts and of the 300 s.
C8_PrimaryRateLimitDelay ==
    (/\ Handled
     /\ resp.val.ok
     /\ resp.val.status = 403
     /\ ~resp.val.retry_after.some
     /\ resp.val.body \in RateLimitBodies
     /\ resp.val.remaining = Some(<<"0">>)
     /\ resp.val.reset.some
     /\ resp.val.reset.val \in {<<"0">>, <<"1", "3", "0">>, <<"5", "0", "0">>}
     /\ Attempts <= 10
     /\ Max(Secs(HeaderSeconds[resp.val.reset.val]) - SystemNow(now), 0) + Secs(1)
          <= TimeLeft) =>
        decision.val =
            Retry(Max(Secs(HeaderSeconds[resp.val.reset.val]) - SystemNow(now), 0)
                    + Secs(1))

C8_Witness ==
    /\ Handled
    /\ resp.val.ok
    /\ resp.val.status = 403
    /\ resp.val.body = EmbeddedRateLimitBody
    /\ resp.val.remaining = Some(<<"0">>)
    /\ resp.val.reset = Some(<<"1", "3", "0">>)
    /\ SystemNow(now) = Secs(130) - Secs(30)
    /\ decision.val = Retry(Secs(31))

\* A secondary rate limit: a 403 without Retry-After, with "rate limit" in
\* the body and an X-RateLimit-Remaining that is not "0"
C9_SecondaryRateLimit ==
    /\ resp.val.ok
    /\ resp.val.status = 403
    /\ ~resp.val.retry_after.some
    /\ resp.val.body \in RateLimitBodies
    /\ resp.val.remaining # Some(<<"0">>)

\* C9: a transport error, a 5xx response or a secondary rate limit, handled
\* while attempts remain and before the deadline, is answered with Retry(the
\* backoff of the attempt, clamped to the time left).
C9_BackoffRetry ==
    (/\ Handled
     /\ Attempts <= 10
     /\ TimeLeft > 0
     /\ \/ ~resp.val.ok
        \/ resp.val.ok /\ resp.val.status \in 500..599
        \/ C9_SecondaryRateLimit) =>
        /\ backoff.some
        /\ decision.val = Retry(Min(backoff.val, TimeLeft))

C9_Witness ==
    /\ Handled
    /\ C9_SecondaryRateLimit
    /\ Attempts = 2
    /\ TimeLeft = Secs(1)
    /\ backoff.val > TimeLeft
    /\ decision.val = Retry(Secs(1))

\* C10: the backoff handle computes is 0.1 s when the attempt count is 1
\* and min(120, 1.25^(attempt count - 1)) s when it is 2 or more.
C10_BackoffValue ==
    (Handled /\ backoff.some) =>
        /\ Attempts = 1 => 10 * backoff.val = Secs(1)
        /\ Attempts >= 2 =>
             /\ TicksPerSec % Power(4, Attempts - 1) = 0
             /\ backoff.val =
                  Min(Secs(120),
                      Power(5, Attempts - 1) * (TicksPerSec \div Power(4, Attempts - 1)))

C10_Witness ==
    /\ Handled
    /\ Attempts = 10
    /\ backoff = Some(1953125 * 10)

\* A response that is neither 4xx nor 5xx
NonError(o) == o.ok /\ ~is_client_error(o.status) /\ ~is_server_error(o.status)

\* C11: a response whose status is neither 4xx nor 5xx is answered with
\* Success carrying that response, at every attempt count and whether or
\* not the deadline has passed; the logical request ends there.
C11_NonErrorIsSuccess ==
    (Handled /\ NonError(resp.val)) =>
        /\ decision.val = Success(resp.val)
        /\ pc = "done"

C11_Witness ==
    /\ Handled
    /\ resp.val.ok
    /\ resp.val.status = 399
    /\ Attempts = 11
    /\ decision.val = Success(resp.val)

\* C12: when a logical request has had k outcomes answered with Retry,
\* 1 <= k <= 10, and the next outcome is a response that is not an error,
\* Client::request returns that response: the k earlier failures leave
\* nothing in what the caller gets.
C12_FailuresAbsorbed ==
    (pc \in {"done", "panicked"} /\ sent \in 2..11 /\ NonError(resp.val)) =>
        /\ pc = "done"
        /\ Attempts = sent
        /\ decision.val = [kind |-> "Success", status |-> resp.val.status]

C12_Witness ==
    /\ pc = "done"
    /\ sent = 11
    /\ limited = 1
    /\ resp.val.ok
    /\ resp.val.status = 200
    /\ decision.val.kind = "Success"

\* C13: while a GET request is in progress no step changes the client's
\* mutation timestamp, and the request did not sleep for the throttle.
\* (The step that returns to the caller is left out: it moves the origin
\* of the clock, which keeps the Instant the timestamp stands for.)
C13_GetLeavesTimestamp ==
    [][(pc' # "idle" /\ method' = "GET") =>
           (last_mutation' = last_mutation /\ slept' = 0)]_vars

C13_Witness ==
    /\ pc = "handle"
    /\ method = "GET"
    /\ sent = 2
    /\ last_mutation.some
    /\ last_mutation.val < now
    /\ slept = 0

\* Content-Type values that denote JSON: application/json, with or without
\* parameters, and an application type with the suffix +json
JsonContentTypes == {Some(CT_JSON), Some(CT_JSON_CHARSET), Some(CT_GITHUB_JSON)}

\* Content-Type values that do not denote JSON; None is no header
OtherContentTypes ==
    {None, Some(CT_TEXT), Some(CT_HTML_CHARSET), Some(CT_OCTETS), Some(CT_NO_SLASH)}

\* Bodies that are not JSON
NotJsonBodies == {BODY_TEXT, BODY_TRAILING, BODY_COMMA, BODY_OPEN}

\* Bodies that are JSON as serde_json prints them with indentation
PRETTY_MESSAGE == <<"{", "\n", " ", " ", "\"", "m", "e", "s", "s", "a", "g",
    "e", "\"", ":", " ", "\"", "N", "o", "t", " ", "F", "o", "u", "n", "d",
    "\"", "\n", "}">>

PRETTY_NESTED == <<"{", "\n", " ", " ", "\"", "a", "\"", ":", " ", "[", "\n",
    " ", " ", " ", " ", "1", ",", "\n", " ", " ", " ", " ", "t", "r", "u",
    "e", ",", "\n", " ", " ", " ", " ", "n", "u", "l", "l", "\n", " ", " ",
    "]", ",", "\n", " ", " ", "\"", "b", "\"", ":", " ", "{", "}", "\n", "}">>

PRETTY_SPACED == <<"{", "\n", " ", " ", "\"", "a", "\"", ":", " ", "1", ".",
    "5", ",", "\n", " ", " ", "\"", "b", "\"", ":", " ", "-", "2", "\n", "}">>

Indented ==
    (BODY_MESSAGE :> PRETTY_MESSAGE) @@ (BODY_NESTED :> PRETTY_NESTED)
    @@ (BODY_SPACED :> PRETTY_SPACED) @@ (BODY_EMPTY_ARRAY :> BODY_EMPTY_ARRAY)
    @@ (BODY_NUMBER :> BODY_NUMBER)

\* The text of the body the StatusError was built from
BodyText == rr.val.body.text

\* C14: a StatusError built from a response whose Content-Type denotes
\* JSON holds the raw text of a body that is not JSON, and the JSON printed
\* with indentation of a body that is.
C14_JsonBodyCaptured ==
    (status_error.some /\ rr.val.content_type \in JsonContentTypes /\ BodyText.some) =>
        /\ BodyText.val \in NotJsonBodies => status_error.val.body = BodyText
        /\ BodyText.val \in DOMAIN Indented =>
               status_error.val.body = Some(Indented[BodyText.val])

\* The half of C14 about bodies that are JSON
JsonBodyIndented ==
    (/\ status_error.some
     /\ rr.val.content_type \in JsonContentTypes
     /\ BodyText.some
     /\ BodyText.val \in DOMAIN Indented) =>
        status_error.val.body = Some(Indented[BodyText.val])

\* C15: a StatusError built from a response whose Content-Type does not
\* denote JSON holds the raw text of a body that is not empty, and None for
\* an empty body and for one that cannot be read as text.
C15_OtherBodyCaptured ==
    (status_error.some /\ rr.val.content_type \in OtherContentTypes) =>
        status_error.val.body =
            IF BodyText.some /\ BodyText.val # <<>> THEN BodyText ELSE None

C15_Witness ==
    /\ status_error.some
    /\ rr.val.content_type = Some(CT_TEXT)
    /\ BodyText = Some(BODY_MESSAGE)
    /\ status_error.val.body = Some(BODY_MESSAGE)
    /\ status_error.val.status = 404

\* The items of the documents, written out
Widget1 == [name |-> <<"a">>, color |-> <<"b">>, power |-> <<"1">>]

Widget2 == [name |-> <<"c">>, color |-> <<"d">>, power |-> <<"2">>]

Widget3 == [name |-> <<"e">>, color |-> <<"f">>, power |-> <<"3">>]

Strings == <<<<"p", "o", "n", "e", "n", "s">>,
             <<"t", "o", "l", "l", "e", "n", "s">>>>

Numbers == << <<"1">>, <<"2">> >>

\* The documents that are a bare array of items of type T, with the items
ArrayItems ==
    (<<"Widget", DOC_WIDGETS>> :> <<Widget1, Widget2>>)
    @@ (<<"String", DOC_STRINGS>> :> Strings)
    @@ (<<"u64", DOC_NUMBERS>> :> Numbers)
    @@ [x \in {<<T, DOC_EMPTY>> : T \in ItemTypes} |-> <<>>]

\* C16: decoding a bare array of items gives a Page with the elements of
\* the array in order, total_count None and incomplete_results None.
C16_ArrayPage ==
    (page.some /\ <<item_type, doc>> \in DOMAIN ArrayItems) =>
        page.val = [ok |-> TRUE, items |-> ArrayItems[<<item_type, doc>>],
                    total_count |-> None, incomplete_results |-> None]

C16_Witness ==
    /\ page.some
    /\ item_type = "Widget"
    /\ doc = DOC_WIDGETS
    /\ page.val.ok
    /\ page.val.items = <<Widget1, Widget2>>
    /\ page.val.total_count = None

\* The document is an object with the member m at its top level
Has(m) == Head(doc) = "{" /\ Contains(doc, m)

\* An object was decoded to a page
ObjectPage == page.some /\ page.val.ok /\ Head(doc) = "{"

\* C17: an object page has total_count Some(n) exactly when its member
\* total_count holds a number n, and incomplete_results Some(b) exactly
\* when its member incomplete_results holds a boolean b; whatever else the
\* object holds.
C17_CountOfAnyNumber ==
    ObjectPage =>
        /\ page.val.total_count.some <=>
               (Has(TOTAL_COUNT_17) \/ Has(TOTAL_COUNT_NEGATIVE)
                \/ Has(TOTAL_COUNT_FRACTION))
        /\ Has(TOTAL_COUNT_17) => page.val.total_count = Some(<<"1", "7">>)
        /\ page.val.incomplete_results =
               IF Has(INCOMPLETE_TRUE) THEN Some(TRUE)
               ELSE IF Has(INCOMPLETE_FALSE) THEN Some(FALSE)
               ELSE None

\* C17, amended: total_count is Some(n) exactly when the member total_count
\* holds an integer n from 0 to u64::MAX; a negative number or one with a
\* fraction gives None, like a string, a boolean or no member.
C17_CountOfU64 ==
    ObjectPage =>
        /\ page.val.total_count =
               IF Has(TOTAL_COUNT_17) THEN Some(<<"1", "7">>) ELSE None
        /\ page.val.incomplete_results =
               IF Has(INCOMPLETE_TRUE) THEN Some(TRUE)
               ELSE IF Has(INCOMPLETE_FALSE) THEN Some(FALSE)
               ELSE None

C17_Witness ==
    /\ ObjectPage
    /\ Has(TOTAL_COUNT_17)
    /\ Has(INCOMPLETE_TRUE)
    /\ Has(MODE)
    /\ page.val.total_count = Some(<<"1", "7">>)
    /\ page.val.incomplete_results = Some(TRUE)
    /\ Len(page.val.items) = 2

\* 1 when the document has the member, 0 when it has not
Number(m) == IF Has(m) THEN 1 ELSE 0

\* The array-valued members of the document other than total_count and
\* incomplete_results
ArrayMembers ==
    Number(WIDGETS) + Number(WIDGETS_EMPTY) + Number(WIDGETS_MIXED)
    + Number(MODES) + Number(MORE_WIDGETS) + Number(NUMBERS)

\* C18: an object decodes to a page if and only if exactly one of its
\* members other than total_count and incomplete_results is an array;
\* otherwise the error names the number of such members.
C18_OneArrayMember ==
    (page.some /\ Head(doc) = "{") =>
        IF ArrayMembers = 1 THEN page.val.ok
        ELSE page.val = [ok |-> FALSE, error |-> "ListQty", qty |-> ArrayMembers]

\* The members of the document, total_count included, that are an array
\* all of whose elements are items of type T; an empty array is one for
\* every T
ListMembers(T) ==
    Number(WIDGETS_EMPTY) + Number(TOTAL_COUNT_EMPTY_ARRAY)
    + (CASE T = "Widget" -> Number(WIDGETS) + Number(MORE_WIDGETS)
         [] T = "String" -> Number(MODES)
         [] T = "u64" -> Number(NUMBERS))

\* C18, amended: an object decodes to a page if and only if exactly one of
\* its members, whatever its name, is an array all of whose elements decode
\* as T; otherwise the error names the number of such members.
C18_OneListMember ==
    (page.some /\ Head(doc) = "{") =>
        IF ListMembers(item_type) = 1 THEN page.val.ok
        ELSE page.val =
                [ok |-> FALSE, error |-> "ListQty", qty |-> ListMembers(item_type)]

C18_Witness ==
    /\ page.some
    /\ item_type = "Widget"
    /\ Has(WIDGETS)
    /\ Has(MORE_WIDGETS)
    /\ Has(TOTAL_COUNT_17)
    /\ page.val = [ok |-> FALSE, error |-> "ListQty", qty |-> 2]

\* The one array of items of type T, next to an array with an element that
\* is not a T
ItemsBesideOtherArray(T) ==
    CASE T = "Widget" /\ Has(WIDGETS) /\ (Has(MODES) \/ Has(NUMBERS)) ->
            Some(<<Widget1, Widget2>>)
      [] T = "Widget" /\ Has(MORE_WIDGETS) /\ Has(WIDGETS_MIXED) -> Some(<<Widget3>>)
      [] T = "String" /\ Has(MODES) /\ (Has(WIDGETS) \/ Has(WIDGETS_MIXED)) ->
            Some(Strings)
      [] T = "u64" /\ Has(NUMBERS) /\ (Has(WIDGETS) \/ Has(WIDGETS_MIXED)) ->
            Some(Numbers)
      [] OTHER -> None

\* C19: an object with one array of T and another array whose elements do
\* not decode as T decodes to the page of the items of the array of T.
C19_OtherArrayIgnored ==
    (/\ page.some
     /\ ItemsBesideOtherArray(item_type).some
     /\ ~Has(TOTAL_COUNT_EMPTY_ARRAY)) =>
        /\ page.val.ok
        /\ page.val.items = ItemsBesideOtherArray(item_type).val

C19_Witness ==
    /\ page.some
    /\ item_type = "Widget"
    /\ Has(WIDGETS)
    /\ Has(MODES)
    /\ Has(TOTAL_COUNT_17)
    /\ page.val.ok
    /\ page.val.items = <<Widget1, Widget2>>
    /\ page.val.total_count = Some(<<"1", "7">>)

\* The pages the server can hold, written out: the items of each and the
\* URL its rel="next" link names
PageItems ==
    (PageResponse(DOC_WIDGETS, Some(LINK_NEXT_2)) :> <<Widget1, Widget2>>)
    @@ (PageResponse(DOC_EMPTY, Some(LINK_PREV_NEXT_3)) :> <<>>)
    @@ (PageResponse(DOC_OBJECT, None) :> <<Widget3>>)
    @@ (PageResponse(DOC_WIDGETS, Some(LINK_LAST_1)) :> <<Widget1, Widget2>>)
    @@ (PageResponse(DOC_OBJECT, Some(LINK_NEXT_1)) :> <<Widget3>>)
    @@ (PageResponse(DOC_EMPTY, None) :> <<>>)

PageNext ==
    (PageResponse(DOC_WIDGETS, Some(LINK_NEXT_2)) :> Some(URL_2))
    @@ (PageResponse(DOC_EMPTY, Some(LINK_PREV_NEXT_3)) :> Some(URL_3))
    @@ (PageResponse(DOC_OBJECT, None) :> None)
    @@ (PageResponse(DOC_WIDGETS, Some(LINK_LAST_1)) :> None)
    @@ (PageResponse(DOC_NUMBER, Some(LINK_PREV_NEXT_3)) :> Some(URL_3))
    @@ (PageResponse(DOC_OBJECT, Some(LINK_NEXT_1)) :> Some(URL_1))
    @@ (PageResponse(DOC_EMPTY, None) :> None)

\* The URLs reached from u by following rel="next" links, at most n of them
RECURSIVE Chain(_, _)
Chain(u, n) ==
    IF n = 0 THEN <<>>
    ELSE IF PageNext[server[u]].some
    THEN <<u>> \o Chain(PageNext[server[u]].val, n - 1)
    ELSE <<u>>

\* The chain from u ends within n pages
RECURSIVE ChainEnds(_, _)
ChainEnds(u, n) ==
    /\ n > 0
    /\ PageNext[server[u]].some => ChainEnds(PageNext[server[u]].val, n - 1)

\* The items of the pages at the given URLs, one page after the other
RECURSIVE ItemsOf(_)
ItemsOf(urls) ==
    IF urls = <<>> THEN <<>>
    ELSE PageItems[server[Head(urls)]] \o ItemsOf(Tail(urls))

\* Nothing but items has been returned
AllOk == \A i \in 1..Len(yielded) : yielded[i].ok

YieldedItems == [i \in 1..Len(yielded) |-> yielded[i].item]

Buffered == IF items.some THEN items.val ELSE <<>>

\* The pages requested whose response has been received
Received ==
    IF pc = "idle" THEN fetched ELSE SubSeq(fetched, 1, Len(fetched) - 1)

\* C20: as long as every fetch and every decode has succeeded, the pages
\* requested are the ones reached by following the rel="next" links from the
\* starting URL, in order; the items returned, followed by the ones
\* buffered, are the items of the pages received, in page order and in-page
\* order, each once; while a page is being fetched nothing is buffered, so
\* that every item of the pages before it has been returned; and the
\* iterator returns None only when every page of the chain has been
\* received, an empty page with a next link included, and every item
\* returned.
C20_DrainIsConcatenation ==
    AllOk =>
        /\ fetched = SubSeq(Chain(URL_1, MaxFetches), 1, Len(fetched))
        /\ YieldedItems \o Buffered = ItemsOf(Received)
        /\ pc # "idle" => Buffered = <<>>
        /\ returned = "end" =>
              /\ ChainEnds(URL_1, MaxFetches)
              /\ fetched = Chain(URL_1, MaxFetches)
              /\ YieldedItems = ItemsOf(Chain(URL_1, MaxFetches))

C20_Witness ==
    /\ returned = "end"
    /\ server[URL_1] = PageResponse(DOC_WIDGETS, Some(LINK_NEXT_2))
    /\ server[URL_2] = PageResponse(DOC_EMPTY, Some(LINK_PREV_NEXT_3))
    /\ server[URL_3] = PageResponse(DOC_OBJECT, None)
    /\ fetched = <<URL_1, URL_2, URL_3>>
    /\ yielded = <<Ok(Widget1), Ok(Widget2), Ok(Widget3)>>

\* The latest value next returned inside Some is an error
ErrorYielded == yielded # <<>> /\ ~yielded[Len(yielded)].ok

\* The pages that do not decode as a page of Widget
NotPages == {DOC_NUMBER}

\* C21: when the request of a page fails, or the page does not decode, next
\* returns that error, and from then on the iterator has neither a next URL
\* nor a buffer, whatever the Link header of the failing response was:
\* later calls return nothing more and request nothing.
C21_ErrorEndsIteration ==
    [][/\ (it_pc = "loop" /\ pc = "done" /\ decision.val.kind # "Success") =>
             yielded' = Append(yielded, [ok |-> FALSE, error |-> decision.val])
       /\ (/\ it_pc = "loop"
           /\ pc = "done"
           /\ decision.val.kind = "Success"
           /\ server[url].doc \in NotPages) =>
             yielded' = Append(yielded,
                               [ok |-> FALSE,
                                error |-> [kind |-> "Deserialize",
                                           method |-> "GET", url |-> url]])
       /\ ErrorYielded =>
             /\ next_url = None
             /\ items = None
             /\ pc = "idle"
             /\ yielded' = yielded
             /\ fetched' = fetched
             /\ pc' = "idle"
             /\ returned' \in {"error", "end"}]_vars

C21_Witness ==
    /\ server[URL_1] = PageResponse(DOC_WIDGETS, Some(LINK_NEXT_2))
    /\ server[URL_2] = PageResponse(DOC_NUMBER, Some(LINK_PREV_NEXT_3))
    /\ fetched = <<URL_1, URL_2>>
    /\ yielded = <<Ok(Widget1), Ok(Widget2),
                   Err(DeserializeError("GET", URL_2))>>
    /\ returned = "end"

\* C22: once next has returned None, the iterator has no next URL and no
\* buffer, and every later call changes nothing of that, makes no transport
\* call and returns None again.
C22_Fused ==
    [][returned = "end" =>
         /\ next_url = None
         /\ items = None
         /\ pc = "idle"
         /\ next_url' = None
         /\ items' = None
         /\ pc' = "idle"
         /\ sent' = sent
         /\ fetched' = fetched
         /\ yielded' = yielded
         /\ returned' = "end"]_vars

C22_Witness ==
    /\ returned = "end"
    /\ it_pc = "loop"
    /\ fetched = <<URL_1, URL_2, URL_3>>
    /\ yielded = <<Ok(Widget1), Ok(Widget2), Ok(Widget3)>>

\* The page received last decoded and has no link with rel="next"
LastPageReceived ==
    /\ AllOk
    /\ pc = "idle"
    /\ fetched # <<>>
    /\ server[fetched[Len(fetched)]] \in DOMAIN PageItems
    /\ ~PageNext[server[fetched[Len(fetched)]]].some

\* C23: after a page without a rel="next" link has been received and
\* decoded, the iterator has no next URL; the calls of next return the items
\* of that page that are left, then None, and none of them requests
\* anything.
C23_NoNextLinkEnds ==
    [][LastPageReceived =>
         /\ next_url = None
         /\ YieldedItems \o Buffered = ItemsOf(fetched)
         /\ fetched' = fetched
         /\ pc' = "idle"
         /\ (it_pc = "loop" /\ Buffered # <<>>) =>
               yielded' = Append(yielded, [ok |-> TRUE, item |-> Head(Buffered)])
         /\ (it_pc = "loop" /\ Buffered = <<>>) => returned' = "end"
         /\ returned' = "end" => YieldedItems = ItemsOf(fetched)]_vars

C23_Witness ==
    /\ server[URL_1] = PageResponse(DOC_WIDGETS, Some(LINK_LAST_1))
    /\ fetched = <<URL_1>>
    /\ yielded = <<Ok(Widget1), Ok(Widget2)>>
    /\ returned = "end"

\* C24: when the chain of rel="next" links from the starting URL is finite,
\* the caller keeps calling next and every transport call returns, next
\* eventually returns None, and no more pages are requested than the chain
\* has.
C24_FiniteChainEnds ==
    /\ ChainEnds(URL_1, MaxFetches) ~> returned = "end"
    /\ [](ChainEnds(URL_1, MaxFetches) =>
            Len(fetched) <= Len(Chain(URL_1, MaxFetches)))

C24_Witness ==
    /\ ChainEnds(URL_1, MaxFetches)
    /\ server[URL_2] = PageResponse(DOC_EMPTY, None)
    /\ fetched = <<URL_1, URL_2>>
    /\ yielded = <<Ok(Widget1), Ok(Widget2)>>
    /\ returned = "end"

\* The types and bodies for which the body is the JSON of a value of the
\* type, and the ones for which it is the JSON of a page of items of the
\* type
ValueDecodes ==
    {<<"Widget", DOC_WIDGET>>, <<"String", DOC_STRING>>, <<"u64", DOC_NUMBER>>}

PageDecodes ==
    {<<"Widget", DOC_WIDGETS>>} \cup {<<T, DOC_EMPTY>> : T \in ItemTypes}

\* C25: when Client::request has returned a response and its body is not
\* the JSON of the type asked for (request_json) or of a page (next), the
\* call returns a Deserialize error with the method and the URL of the
\* request, and the logical request is over: no transport call follows.
C25_DeserializeErrorNotRetried ==
    [][(pc = "done" /\ decision.val.kind = "Success") =>
         /\ pc' = "idle"
         /\ retrier' = None
         /\ (JsonPending /\ <<item_type, server[url].doc>> \notin ValueDecodes) =>
               result' = [pending |-> FALSE, ok |-> FALSE,
                          error |-> [kind |-> "Deserialize",
                                     method |-> method, url |-> url]]
         /\ (it_pc = "loop" /\ <<item_type, server[url].doc>> \notin PageDecodes) =>
               yielded' = Append(yielded,
                                 [ok |-> FALSE,
                                  error |-> [kind |-> "Deserialize",
                                             method |-> "GET", url |-> url]])]_vars

C25_Witness ==
    /\ item_type = "Widget"
    /\ server[URL_1].doc = DOC_STRING
    /\ result = JsonErr(DeserializeError("POST", URL_1))
    /\ yielded = <<Err(DeserializeError("GET", URL_1))>>
    /\ pc = "idle"

\* The transport calls of a logical request that have been handled
HandledCalls(l) == IF l.pc = "handle" THEN l.sent - 1 ELSE l.sent

\* The backoff of the k-th attempt, written out
BackoffOfAttempt(k) ==
    IF k = 1 THEN TicksPerSec \div 10
    ELSE (Power(5, k - 1) * TicksPerSec) \div Power(4, k - 1)

\* The time a step lets pass; the step in which Client::request returns
\* only moves the origin of the clock
Elapsed == IF pc = "done" /\ pc' = "idle" THEN 0 ELSE now' - now

\* C26: every call of Client::request, a page fetch of a PaginationIter
\* included, starts with a Retrier of its own with 0 attempts and a
\* deadline 300 s after its start.  With two logical requests interleaved,
\* the attempt count of each is the number of its own transport calls that
\* were handled, a Retry carries the backoff of its own attempt count, and
\* the steps of the running thread leave the attempt count, the deadline
\* and the decision of the other as they are.
C26_RetrierPerRequest ==
    [][/\ (tid' = tid /\ pc = "idle" /\ pc' = "send") =>
             retrier' = Some([method |-> method', url |-> url', attempts |-> 0,
                              stop_time |-> now' + Secs(300)])
       /\ retrier.some => retrier.val.attempts = HandledCalls(Locals)
       /\ parked.val.retrier.some =>
             parked.val.retrier.val.attempts = HandledCalls(parked.val)
       /\ (pc = "sleep") =>
             decision.val = [kind |-> "Retry",
                             delay |-> BackoffOfAttempt(HandledCalls(Locals))]
       /\ (tid' = tid /\ parked.val.retrier.some) =>
             /\ parked'.val.retrier.some
             /\ parked'.val.retrier.val.attempts = parked.val.retrier.val.attempts
             /\ parked'.val.retrier.val.stop_time - now' =
                  parked.val.retrier.val.stop_time - now - Elapsed
             /\ parked'.val.decision = parked.val.decision
             /\ parked'.val.pc = parked.val.pc
             /\ parked'.val.sent = parked.val.sent]_vars

C26_Witness ==
    /\ tid = 1
    /\ it_pc = "loop"
    /\ fetched = <<URL_1, URL_2>>
    /\ pc = "sleep"
    /\ retrier.val.attempts = 2
    /\ parked.val.pc = "sleep"
    /\ parked.val.retrier.val.attempts = 1
    /\ parked.val.retrier.val.stop_time < retrier.val.stop_time

\* C28: an outcome handled after the deadline of its logical request is
\* finalized whatever it is: a response that is not an error is returned as
\* the success, a 4xx or 5xx response gives a StatusError (a 403 with
\* Retry-After or a rate-limit body included), a transport error gives a
\* SendError; no Retry is returned and the request ends.
C28_FinalizeAfterDeadline ==
    (Handled /\ now > retrier.val.stop_time) =>
        /\ pc = "done"
        /\ backoff = None
        /\ decision.val =
             IF ~resp.val.ok THEN TheSendError
             ELSE IF resp.val.status \in 400..599
                  THEN TheStatusError(resp.val.status)
             ELSE [kind |-> "Success", status |-> resp.val.status]

C28_Witness ==
    /\ Handled
    /\ now = retrier.val.stop_time + Secs(1)
    /\ Attempts = 2
    /\ resp.val.ok
    /\ resp.val.status = 403
    /\ resp.val.retry_after = Some(<<"5">>)
    /\ decision.val = TheStatusError(403)

\* C29: the delay of every Retry is at most the time left until the
\* deadline of the logical request, the sleep that follows ends at the
\* deadline at the latest, and the sleeps of one logical request add up to
\* at most 300 s.
C29_SleepsWithinTotalWait ==
    /\ (Handled /\ decision.val.kind = "Retry") =>
          decision.val.delay <= retrier.val.stop_time - now
    /\ (pc = "send" /\ sent > 0) => now <= retrier.val.stop_time
    /\ waited <= Secs(300)

C29_Witness ==
    /\ pc = "send"
    /\ sent = 2
    /\ now = retrier.val.stop_time
    /\ waited > Secs(6)

C30_ZeroDelayChosen ==
    /\ resp.val.ok
    /\ resp.val.status = 403
    /\ IF resp.val.retry_after.some
       THEN resp.val.retry_after.val \in {<<"-", "1">>, U64_MAX_STR}
       ELSE /\ resp.val.body \in RateLimitBodies
            /\ resp.val.remaining = Some(<<"0">>)
            /\ resp.val.reset \in {None, Some(<<"n", "o">>)}

C31_TimestampSetBeforeEveryAttempt ==
    [][/\ (pc = "send" /\ pc' = "handle" /\ is_mutating(method)) =>
             last_mutation' = Some(now)
       /\ (pc \in {"handle", "sleep"} /\ is_mutating(method)) =>
             last_mutation' = last_mutation
       /\ (pc = "done" /\ is_mutating(method)) => last_mutation = prev_start]_vars

C31_Witness ==
    /\ pc = "done"
    /\ method = "POST"
    /\ sent = 3
    /\ waited > Secs(1)
    /\ decision.val.kind = "Status"
    /\ last_mutation = Some(slept + waited)
    /\ last_mutation = prev_start

C33_ThrottleAcrossRequests ==
    [][/\ (pc = "idle" /\ pc' = "send" /\ is_mutating(method')) =>
             /\ prev_start = None => (slept' = 0 /\ now' = now)
             /\ prev_start.some =>
                   /\ now' = now + slept'
                   /\ now' - prev_start.val >= Secs(1)
                   /\ slept' > 0 => now' - prev_start.val = Secs(1)
       /\ (pc = "send" /\ pc' = "handle" /\ sent = 0 /\ is_mutating(method)
             /\ prev_start.some) =>
             now - prev_start.val >= Secs(1)]_vars

C33_Witness ==
    /\ pc = "send"
    /\ sent = 0
    /\ method = "DELETE"
    /\ prev_start = Some(now - Secs(1))
    /\ slept = Secs(1) - IdleTicks
    /\ last_mutation = prev_start

\* C34: a Retry whose delay is the time left until the deadline (the delay
\* chosen was clamped to it) is followed by the sleep, which ends at the
\* deadline, and by one more transport call, which starts at the deadline;
\* the outcome of that call is final: the success for a response that is
\* not an error, a StatusError for a 4xx or 5xx response, a SendError for a
\* transport error, and no Retry.
C34_OneMoreAttemptAfterClampedDelay ==
    [][/\ (pc = "sleep" /\ decision.val.delay = retrier.val.stop_time - now) =>
             /\ pc' = "send"
             /\ now' = retrier.val.stop_time
             /\ sent' = sent
       /\ (pc = "send" /\ sent > 0 /\ now = retrier.val.stop_time) =>
             /\ pc' = "handle"
             /\ sent' = sent + 1
             /\ now' >= retrier.val.stop_time
       /\ (pc = "handle" /\ sent > 1 /\ now >= retrier.val.stop_time) =>
             /\ pc' = "done"
             /\ decision'.val.kind # "Retry"
             /\ decision'.val =
                  IF ~resp.val.ok THEN TheSendError
                  ELSE IF resp.val.status \in 400..599
                       THEN TheStatusError(resp.val.status)
                  ELSE [kind |-> "Success", status |-> resp.val.status]]_vars

C34_Witness ==
    /\ pc = "done"
    /\ sent = 3
    /\ Attempts = 3
    /\ waited > Secs(1)
    /\ now = retrier.val.stop_time
    /\ resp.val.ok
    /\ resp.val.status = 200
    /\ decision.val.kind = "Success"

\* A 403 response with a Retry-After header that is not a non-negative
\* integer: the text -1, or a value that is not visible ASCII
C35_RetryAfterNotInteger ==
    /\ resp.val.ok
    /\ resp.val.status = 403
    /\ resp.val.retry_after \in {Some(<<"-", "1">>), Some(<<OBS_BYTE>>)}

C36_CloneCopiesTimestamp ==
    [][/\ (~parked.some /\ parked'.some) =>
             /\ parked'.val.last_mutation = last_mutation
             /\ last_mutation' = last_mutation
       /\ (parked.some /\ tid' = tid /\ pc' # "idle") =>
             parked'.val.last_mutation = parked.val.last_mutation
       /\ (parked.some /\ pc = "done" /\ pc' = "idle") =>
             parked'.val.last_mutation =
                IF parked.val.last_mutation.some
                THEN Some(Max(parked.val.last_mutation.val - now, 0 - Secs(1)))
                ELSE None
       /\ (parked.some /\ pc = "idle" /\ pc' = "send" /\ is_mutating(method')) =>
             /\ prev_start = None => slept' = 0
             /\ slept' > 0 =>
                   (prev_start.some /\ now' - prev_start.val = Secs(1))
             /\ prev_start.some => now' - prev_start.val >= Secs(1)]_vars

C36_Witness ==
    /\ parked.some
    /\ tid = 2
    /\ pc = "handle"
    /\ method = "POST"
    /\ sent = 1
    /\ slept = 0
    /\ last_mutation = Some(now)
    /\ parked.val.last_mutation = Some(now - IdleTicks)
    /\ prev_start # parked.val.prev_start

\* The members of the document that hold an empty array
EmptyArrayMembers == Number(WIDGETS_EMPTY) + Number(TOTAL_COUNT_EMPTY_ARRAY)

\* The members of the document that hold an array of one or more items of
\* type T
ItemArrayMembers(T) ==
    CASE T = "Widget" -> Number(WIDGETS) + Number(MORE_WIDGETS)
      [] T = "String" -> Number(MODES)
      [] T = "u64" -> Number(NUMBERS)

\* The members of the document that hold an array that is not empty
FilledArrayMembers ==
    Number(WIDGETS) + Number(WIDGETS_MIXED) + Number(MODES)
    + Number(MORE_WIDGETS) + Number(NUMBERS)

\* C37: for every item type T, an object with one array of one or more
\* items of T and one other member that holds an empty array does not
\* decode: the error is ListQty(2); and an object whose only array is an
\* empty one decodes to a page without items (with total_count None when
\* that array is the member total_count).
C37_EmptyArrayIsList ==
    (page.some /\ Head(doc) = "{") =>
        /\ (ItemArrayMembers(item_type) = 1 /\ EmptyArrayMembers = 1) =>
              page.val = [ok |-> FALSE, error |-> "ListQty", qty |-> 2]
        /\ (EmptyArrayMembers = 1 /\ FilledArrayMembers = 0) =>
              /\ page.val.ok
              /\ page.val.items = <<>>
              /\ Has(TOTAL_COUNT_EMPTY_ARRAY) => page.val.total_count = None

C37_Witness ==
    /\ page.some
    /\ item_type = "u64"
    /\ Has(NUMBERS)
    /\ Has(WIDGETS_EMPTY)
    /\ Has(TOTAL_COUNT_17)
    /\ page.val = [ok |-> FALSE, error |-> "ListQty", qty |-> 2]

====
